---- MODULE Spec2Model ----
(***************************************************************************)
(* Model of the football data backend: the ingestion routers               *)
(* (app/routers/ingestion) writing the relational store (app/models.py)    *)
(* and the reporting queries (app/routers/retrieval) reading it.           *)
(*                                                                         *)
(* The store is the record db, one field per table, each table a set of    *)
(* rows; db holds COMMITTED rows only.  Every ingestion request owns one   *)
(* session (app/database.py get_db); what a session has written but not    *)
(* yet committed lives in the run's own record and reaches db only at the  *)
(* step that models `await db.commit()`.  Season years are modelled as the *)
(* ordinals 1..NumYears.  Columns that the handlers only copy from the     *)
(* payload (logos, codes, end dates, coverage) follow the one copied       *)
(* column kept per table.                                                  *)
(***************************************************************************)
EXTENDS Integers, Sequences, FiniteSets, TLC

VARIABLES
    db,     \* the store: committed rows, one field per table
    api,    \* the external source as the sequential pipeline sees it
    lrun,   \* POST /leagues requests
    trun,   \* POST /teams requests
    frun,   \* POST /fixtures requests
    drun,   \* POST /fixtures_data and POST /odds requests
    prun,   \* POST /predictions requests
    srun,   \* POST /players and POST /player_statistics requests
    hist    \* history: what the claims compare the store against

vars == <<db, api, lrun, trun, frun, drun, prun, srun, hist>>

\* Python's None in a text value.
None == "None"

\* An absent id of the payload: dict.get() gives None, which the handlers
\* test with `if not x`, as they would test 0.
NoId == 0

\* None in an Integer column that may also hold 0 (the goals).
NoGoals == -1

(* ---------------------------------------------------------------------- *)
(* Bounds                                                                  *)
(* ---------------------------------------------------------------------- *)
NumYears == 2
MaxSeasonsPerResp == 2

Years == 1..NumYears

\* Two requests, so that two handlers can overlap.
RunIds == {"A", "B"}

(* ---------------------------------------------------------------------- *)
(* Store schema (app/models.py)                                            *)
(* ---------------------------------------------------------------------- *)
League(league_id, name) == [league_id |-> league_id, name |-> name]

Season(league_id, year, start_date, current) ==
    [league_id |-> league_id, year |-> year, start_date |-> start_date,
     current |-> current]

Team(team_id, name) == [team_id |-> team_id, name |-> name]

\* The columns of class Team; there is no season_year and no league_id.
TeamColumns == {"team_id", "name", "code", "country", "founded", "national", "logo"}

TeamLeague(team_id, league_id, season_year) ==
    [team_id |-> team_id, league_id |-> league_id, season_year |-> season_year]

\* class Player: the primary key is player_id.
Player(player_id, name, team_id, season_year) ==
    [player_id |-> player_id, name |-> name, team_id |-> team_id,
     season_year |-> season_year]

\* class PlayerStatistics: the primary key is the serial id; the class
\* declares no uniqueness constraint.
PlayerStatistics(id, player_id, team_id, league_id, season_year, goals_total) ==
    [id |-> id, player_id |-> player_id, team_id |-> team_id,
     league_id |-> league_id, season_year |-> season_year,
     goals_total |-> goals_total]

Venue(id, name) == [id |-> id, name |-> name]

\* class Fixture; timezone stands for the NOT NULL columns that are copied
\* from the payload (timezone, timestamp, status_long).
Fixture(fixture_id, league_id, season_year, round, home_team_id, away_team_id, venue_id, timezone, status_short, is_final, goals_home, goals_away) ==
    [fixture_id |-> fixture_id, league_id |-> league_id,
     season_year |-> season_year, round |-> round, home_team_id |-> home_team_id,
     away_team_id |-> away_team_id, venue_id |-> venue_id,
     timezone |-> timezone, status_short |-> status_short,
     is_final |-> is_final, goals_home |-> goals_home, goals_away |-> goals_away]

Bookmaker(id, name) == [id |-> id, name |-> name]

BetType(id, name) == [id |-> id, name |-> name]

FixtureOdds(id, fixture_id, update_time) ==
    [id |-> id, fixture_id |-> fixture_id, update_time |-> update_time]

FixtureBookmaker(id, fixture_odds_id, bookmaker_id) ==
    [id |-> id, fixture_odds_id |-> fixture_odds_id, bookmaker_id |-> bookmaker_id]

Bet(id, fixture_bookmaker_id, bet_type_id) ==
    [id |-> id, fixture_bookmaker_id |-> fixture_bookmaker_id,
     bet_type_id |-> bet_type_id]

OddValue(id, bet_id, value, odd) ==
    [id |-> id, bet_id |-> bet_id, value |-> value, odd |-> odd]

\* class Prediction: id is the primary key, fixture_id is unique.
Prediction(id, fixture_id, winner_team_id, advice) ==
    [id |-> id, fixture_id |-> fixture_id, winner_team_id |-> winner_team_id,
     advice |-> advice]

MatchStatistics(id, fixture_id, team_id) ==
    [id |-> id, fixture_id |-> fixture_id, team_id |-> team_id]

MatchEvent(id, fixture_id, minute, team_id, type) ==
    [id |-> id, fixture_id |-> fixture_id, minute |-> minute,
     team_id |-> team_id, type |-> type]

\* ids : the last value each serial primary key has handed out.
EmptyDb ==
    [leagues |-> {}, seasons |-> {}, teams |-> {}, team_leagues |-> {},
     players |-> {}, player_statistics |-> {},
     venues |-> {}, fixtures |-> {}, bookmakers |-> {}, bet_types |-> {},
     fixture_odds |-> {}, fixture_bookmakers |-> {}, bets |-> {},
     odd_values |-> {}, predictions |-> {}, match_statistics |-> {},
     match_events |-> {},
     ids |-> [fixture_odds |-> 0, fixture_bookmakers |-> 0, bets |-> 0,
              odd_values |-> 0, match_statistics |-> 0, match_events |-> 0,
              predictions |-> 0, player_statistics |-> 0]]

\* History kept for the claims:
\*   lastUpserted[l] : year of the season upserted last for league l (0: none)
\*   kind, inserted  : the handler of the request in progress or just
\*                     finished, and the rows it has inserted
\*   lastKind        : the handler that has just answered 200 ("none" while a
\*                     request runs and after a 500)
\*   prevKind, snap  : the handler that answered 200 right before the request
\*                     started, and the store at that start
\*   handled         : the fixture records the request has gone through
\*   tree            : the last call of a replace function (see TreeCall)
\*   answer          : the last answer of a retrieval request
\*   entry           : the last answer of an ingestion entry point called
\*                     without an API key
\*   fetched_prediction[f] : the prediction fetched last for fixture f
\*   report          : the fixtures the last report has read
\*   interrupted     : a request has been interrupted after a commit
\*   restored        : the seasons whose flags the last rollback of a season
\*                     write has restored
\*   lookup          : the last by-id read request and its answer
\*   h2h             : the last call of calculate_h2h_stats and its result
\*   sighted         : the last league record met whose League row exists
\*                     under another name (see Sighting)
BeginRequest(h, kind, d) ==
    [h EXCEPT !.kind = kind, !.inserted = 0, !.prevKind = h.lastKind,
              !.lastKind = "none", !.snap = d, !.handled = {}]

EndRequest(h, ok) == [h EXCEPT !.lastKind = IF ok THEN h.kind ELSE "none"]

Inserted(h, n) == [h EXCEPT !.inserted = @ + n]

SeasonKeys(d) == {<<s.league_id, s.year>> : s \in d.seasons}

CurrentSeasons(d, l) == {s \in d.seasons : s.league_id = l /\ s.current}

(* ---------------------------------------------------------------------- *)
(* External source: GET /leagues?id=<league_id>                            *)
(* ---------------------------------------------------------------------- *)
league_ids == <<39, 135, 140, 78, 61, 3, 2>>

\* The leagues the modelled source has data for; the others answer with an
\* empty "response" list.
ServedLeagues == {39}

ValidDate == "2024-08-16"
DateStrs == {ValidDate, "16/08/2024"}

\* datetime.strptime(s, "%Y-%m-%d").date()
strptime(s) ==
    IF s = ValidDate THEN [ok |-> TRUE, date |-> <<2024, 8, 16>>]
    ELSE [ok |-> FALSE, date |-> None]

SeasonEntries == [year : Years, current : BOOLEAN, start : DateStrs]

SeqsUpTo(S, n) == UNION {[1..k -> S] : k \in 0..n}

\* Season lists of one response: no year twice.
SeasonLists ==
    {q \in SeqsUpTo(SeasonEntries, MaxSeasonsPerResp) :
        \A i, j \in 1..Len(q) : i # j => q[i].year # q[j].year}

LeagueNames == {"Premier League", None}

LeagueFeeds ==
    {[status_code |-> 500, response |-> <<>>],
     [status_code |-> 200, response |-> <<>>]}
    \cup {[status_code |-> 200,
           response |-> <<[name |-> n, seasons |-> q]>>] :
             n \in LeagueNames, q \in SeasonLists}

(* ---------------------------------------------------------------------- *)
(* POST /leagues : fetch_and_store_leagues (ingest_leagues.py)             *)
(* One record per request; pc is the position in the handler.              *)
(*   txn : keys of the Season rows the UPDATE of line 138 has changed in   *)
(*         the open transaction (row locks held until commit/rollback).    *)
(* ---------------------------------------------------------------------- *)
IdleLeagueRun ==
    [pc |-> "idle", li |-> 0, name |-> None, seasons_data |-> <<>>,
     cur |-> <<>>, si |-> 0, existing |-> FALSE, txn |-> {}]

IsCurrent(season) == season.current

\* Lines 113-117: keep the seasons flagged current; none -> next league.
EnterSeasons(rr, seasons_data) ==
    LET current_seasons == SelectSeq(seasons_data, IsCurrent) IN
    IF current_seasons = <<>>
    THEN [rr EXCEPT !.pc = "fetch", !.li = @ + 1, !.name = None,
                    !.seasons_data = <<>>, !.cur = <<>>, !.si = 0]
    ELSE [rr EXCEPT !.pc = "season", !.name = None, !.seasons_data = <<>>,
                    !.cur = current_seasons, !.si = 1]

\* `continue` of the loop over current_seasons (line 119); after the last
\* season the loop over league_ids goes on.
NextSeason(rr) ==
    IF rr.si + 1 > Len(rr.cur)
    THEN [rr EXCEPT !.pc = "fetch", !.li = @ + 1, !.cur = <<>>, !.si = 0,
                    !.existing = FALSE, !.txn = {}]
    ELSE [rr EXCEPT !.pc = "season", !.si = @ + 1, !.existing = FALSE,
                    !.txn = {}]

\* Row locks held by the open transactions of the other requests.
LockedByOthers(r) == UNION {lrun[o].txn : o \in RunIds \ {r}}

\* Lines 24-39: a request starts (the API key is configured).
LeagueStart(r) ==
    /\ lrun[r].pc \in {"idle", "done"}
    /\ lrun' = [lrun EXCEPT ![r] = [IdleLeagueRun EXCEPT !.pc = "fetch", !.li = 1]]
    /\ hist' = BeginRequest(hist, "leagues", db)
    /\ UNCHANGED <<db, trun, frun, drun, prun, srun>>

\* The source has answered with a record of a league whose League row
\* exists and holds another name than the record's.
Sighting(h, d, league_id, resp) ==
    IF /\ league_id \in ServedLeagues
       /\ resp.status_code = 200
       /\ resp.response # <<>>
       /\ resp.response[1].name # None
       /\ \E lg \in d.leagues :
             lg.league_id = league_id /\ lg.name # resp.response[1].name
    THEN [h EXCEPT !.sighted = [league_id |-> league_id,
                                name |-> resp.response[1].name]]
    ELSE h

\* Lines 42-96 and 109-117: fetch one league, look the League row up.  The
\* row found is left as it is (lines 109-111).
LeagueFetch(r, resp) ==
    LET rr == lrun[r] IN
    /\ rr.pc = "fetch"
    /\ rr.li <= Len(league_ids)
    /\ LET league_id == league_ids[rr.li]
           served == IF league_id \in ServedLeagues THEN resp
                     ELSE [status_code |-> 200, response |-> <<>>]
       IN
       IF served.status_code # 200 \/ served.response = <<>>
       THEN lrun' = [lrun EXCEPT ![r].li = @ + 1]
       ELSE LET item == served.response[1]
                existing_league == \E lg \in db.leagues : lg.league_id = league_id
            IN
            IF existing_league
            THEN lrun' = [lrun EXCEPT ![r] = EnterSeasons(rr, item.seasons)]
            ELSE lrun' = [lrun EXCEPT ![r] =
                             [rr EXCEPT !.pc = "insert_league",
                                        !.name = item.name,
                                        !.seasons_data = item.seasons]]
    /\ hist' = Sighting(hist, db, league_ids[rr.li], resp)
    /\ UNCHANGED <<db, api, trun, frun, drun, prun, srun>>

\* Lines 98-108: insert the League row and commit.  The insert fails on a
\* NULL name (nullable=False) and on a primary-key conflict; a failure is
\* rolled back and the league's seasons are skipped.
LeagueInsert(r) ==
    LET rr == lrun[r]
        league_id == league_ids[rr.li]
        fails == rr.name = None
                 \/ \E lg \in db.leagues : lg.league_id = league_id
    IN
    /\ rr.pc = "insert_league"
    /\ IF fails
       THEN /\ lrun' = [lrun EXCEPT ![r] =
                           [rr EXCEPT !.pc = "fetch", !.li = @ + 1,
                                      !.name = None, !.seasons_data = <<>>]]
            /\ UNCHANGED <<db, hist>>
       ELSE /\ db' = [db EXCEPT !.leagues = @ \cup {League(league_id, rr.name)}]
            /\ lrun' = [lrun EXCEPT ![r] = EnterSeasons(rr, rr.seasons_data)]
            /\ hist' = Inserted(hist, 1)
    /\ UNCHANGED <<api, trun, frun, drun, prun, srun>>

\* Mutant of ClearTargets: the UPDATE clears nothing.
ClearTargets_None(d, league_id) == {}

\* The rows UPDATE ... WHERE league_id = :l AND current = true touches.
ClearTargets(d, league_id) ==
    {<<s.league_id, s.year>> : s \in CurrentSeasons(d, league_id)}

\* Lines 119-147: parse the dates (a parse error skips the season), then
\* execute the UPDATE that clears the league's current flags.  The UPDATE
\* waits while another transaction holds a lock on a row it touches.
SeasonClear(r) ==
    LET rr == lrun[r]
        league_id == league_ids[rr.li]
        season == rr.cur[rr.si]
    IN
    /\ rr.pc = "season"
    /\ IF ~strptime(season.start).ok
       THEN lrun' = [lrun EXCEPT ![r] = NextSeason(rr)]
       ELSE /\ ClearTargets(db, league_id) \cap LockedByOthers(r) = {}
            /\ lrun' = [lrun EXCEPT ![r] =
                           [rr EXCEPT !.pc = "lookup",
                                      !.txn = ClearTargets(db, league_id)]]
    /\ UNCHANGED <<db, api, trun, frun, drun, hist, prun, srun>>

\* Lines 159-165: SELECT the season by (league_id, year).
SeasonLookup(r) ==
    LET rr == lrun[r]
        key == <<league_ids[rr.li], rr.cur[rr.si].year>>
    IN
    /\ rr.pc = "lookup"
    /\ lrun' = [lrun EXCEPT ![r] =
                   [rr EXCEPT !.pc = "write", !.existing = key \in SeasonKeys(db)]]
    /\ UNCHANGED <<db, api, trun, frun, drun, hist, prun, srun>>

\* Mutant of SeasonCommit: the cleared flags are applied after the upsert.
SeasonCommit_ClearLast(seasons, txn, row) ==
    {IF <<s.league_id, s.year>> \in txn THEN [s EXCEPT !.current = FALSE] ELSE s :
        s \in {x \in seasons : <<x.league_id, x.year>> # <<row.league_id, row.year>>}
               \cup {row}}

\* The transaction's effect on the seasons table at commit: the cleared
\* flags, then the inserted or updated row.
SeasonCommit(seasons, txn, row) ==
    {IF <<s.league_id, s.year>> \in txn THEN [s EXCEPT !.current = FALSE] ELSE s :
        s \in {x \in seasons : <<x.league_id, x.year>> # <<row.league_id, row.year>>}}
    \cup {row}

\* Mutant of Rollback: the cleared flags stay cleared.
Rollback_KeepsCleared(seasons, txn) ==
    {IF <<s.league_id, s.year>> \in txn THEN [s EXCEPT !.current = FALSE] ELSE s :
        s \in seasons}

\* Lines 174-177 and 187-190: db.rollback() ends the transaction; the
\* UPDATE of line 138 it held is undone with it.
Rollback(seasons, txn) == seasons

\* Lines 167-190: insert (or update) the season and commit; an exception
\* rolls the transaction back, the cleared flags included.
SeasonWrite(r) ==
    LET rr == lrun[r]
        league_id == league_ids[rr.li]
        season == rr.cur[rr.si]
        key == <<league_id, season.year>>
        current_season_flag == season.current
        row == Season(league_id, season.year, strptime(season.start).date,
                      current_season_flag)
        \* uix_league_year: the INSERT of a key that is present by now fails
        conflict == ~rr.existing /\ key \in SeasonKeys(db)
    IN
    /\ rr.pc = "write"
    /\ rr.existing => key \notin LockedByOthers(r)
    /\ IF conflict
       THEN /\ db' = [db EXCEPT !.seasons = Rollback(@, rr.txn)]
            /\ lrun' = [lrun EXCEPT ![r] = NextSeason(rr)]
            /\ hist' = [hist EXCEPT !.restored = rr.txn]
       ELSE /\ db' = [db EXCEPT !.seasons = SeasonCommit(@, rr.txn, row)]
            /\ lrun' = [lrun EXCEPT ![r] = NextSeason(rr)]
            /\ hist' = [Inserted(hist, IF rr.existing THEN 0 ELSE 1)
                           EXCEPT !.lastUpserted[league_id] = season.year]
    /\ UNCHANGED <<api, trun, frun, drun, prun, srun>>

\* Lines 192-199: the closing SELECT and the 200 answer.
LeagueFinish(r) ==
    /\ lrun[r].pc = "fetch"
    /\ lrun[r].li > Len(league_ids)
    /\ lrun' = [lrun EXCEPT ![r] = [IdleLeagueRun EXCEPT !.pc = "done"]]
    /\ hist' = EndRequest(hist, TRUE)
    /\ UNCHANGED <<db, api, trun, frun, drun, prun, srun>>

(* ---------------------------------------------------------------------- *)
(* External source: GET /teams?league=<league_id>&season=<year>            *)
(* ---------------------------------------------------------------------- *)
MaxTeamsPerResp == 2

TeamIds == {33, 34}

TeamItems == [id : TeamIds \cup {NoId}, name : {"FC", None}]

TeamFeeds ==
    {[status_code |-> 500, response |-> <<>>]}
    \cup {[status_code |-> 200, response |-> q] :
            q \in SeqsUpTo(TeamItems, MaxTeamsPerResp)}

(* ---------------------------------------------------------------------- *)
(* POST /teams : fetch_and_store_teams (ingest_teams.py)                   *)
(*   seasons              : the current seasons still to be processed      *)
(*   teams_to_add         : the new Team objects of the season's batch     *)
(*   associations_to_add  : the TeamLeague objects to insert; cascaded     *)
(*                          tells that the object hangs on a new Team      *)
(* ---------------------------------------------------------------------- *)
IdleTeamRun ==
    [pc |-> "idle", seasons |-> {}, league_id |-> 0, season_year |-> 0,
     items |-> <<>>, teams_to_add |-> <<>>, associations_to_add |-> <<>>]

TeamKeys(d) == {t.team_id : t \in d.teams}

TeamLeagueKeys(d) ==
    {<<a.team_id, a.league_id, a.season_year>> : a \in d.team_leagues}

HasDuplicates(q) == \E i, j \in 1..Len(q) : i # j /\ q[i] = q[j]

SeqToSet(q) == {q[i] : i \in 1..Len(q)}

\* Lines 129-141 reached with the batch collected: which commit comes next.
AfterItems(tr) ==
    IF tr.teams_to_add # <<>> THEN [tr EXCEPT !.pc = "commit_teams"]
    ELSE IF tr.associations_to_add # <<>> THEN [tr EXCEPT !.pc = "commit_assocs"]
    ELSE [tr EXCEPT !.pc = "fetch"]

\* Lines 25-36: SELECT the current seasons; none -> answer at once.
TeamStart(r) ==
    LET seasons == {<<s.league_id, s.year>> : s \in {x \in db.seasons : x.current}} IN
    /\ trun[r].pc \in {"idle", "done", "failed"}
    /\ trun' = [trun EXCEPT ![r] =
                   [IdleTeamRun EXCEPT !.pc = "fetch", !.seasons = seasons]]
    /\ hist' = BeginRequest(hist, "teams", db)
    /\ UNCHANGED <<db, lrun, frun, drun, prun, srun>>

\* Lines 48-74: fetch the teams of one current season.
TeamFetch(r, resp) ==
    LET tr == trun[r] IN
    /\ tr.pc = "fetch"
    /\ \E season \in tr.seasons :
          LET rest == [tr EXCEPT !.seasons = @ \ {season},
                                 !.league_id = season[1],
                                 !.season_year = season[2],
                                 !.teams_to_add = <<>>,
                                 !.associations_to_add = <<>>]
          IN
          IF resp.status_code # 200
          THEN trun' = [trun EXCEPT ![r] = [rest EXCEPT !.items = <<>>]]
          ELSE IF resp.response = <<>>
               THEN trun' = [trun EXCEPT ![r] = AfterItems([rest EXCEPT !.items = <<>>])]
               ELSE trun' = [trun EXCEPT ![r] =
                                [rest EXCEPT !.pc = "items", !.items = resp.response]]
    /\ UNCHANGED <<db, api, lrun, frun, drun, hist, prun, srun>>

\* Lines 76-127: one item of the response: the Team lookup and the
\* TeamLeague lookup, both against the committed rows.
TeamItem(r) ==
    LET tr == trun[r]
        item == Head(tr.items)
        team_id == item.id
        team_name == item.name
        team_found == team_id \in TeamKeys(db)
        existing_assoc ==
            <<team_id, tr.league_id, tr.season_year>> \in TeamLeagueKeys(db)
        added ==
            [tr EXCEPT
                !.teams_to_add =
                    IF team_found THEN @ ELSE Append(@, Team(team_id, team_name)),
                !.associations_to_add =
                    IF existing_assoc THEN @
                    ELSE Append(@, [team_id |-> team_id, cascaded |-> ~team_found])]
        next == IF team_id = NoId \/ team_name = None THEN tr ELSE added
        popped == [next EXCEPT !.items = Tail(tr.items)]
    IN
    /\ tr.pc = "items"
    /\ trun' = [trun EXCEPT ![r] =
                   IF popped.items = <<>> THEN AfterItems(popped) ELSE popped]
    /\ UNCHANGED <<db, api, lrun, frun, drun, hist, prun, srun>>

\* The TeamLeague rows that ride on the new Team objects: db.add_all(teams)
\* cascades along Team.team_leagues, which TeamLeague(team=team) filled.
CascadedAssociations(tr) ==
    {TeamLeague(tr.teams_to_add[i].team_id, tr.league_id, tr.season_year) :
        i \in 1..Len(tr.teams_to_add)}

\* The TeamLeague rows of associations_to_add that hang on stored teams.
PlainAssociations(tr) ==
    [i \in 1..Len(SelectSeq(tr.associations_to_add, LAMBDA a : ~a.cascaded)) |->
        TeamLeague(SelectSeq(tr.associations_to_add, LAMBDA a : ~a.cascaded)[i].team_id,
                   tr.league_id, tr.season_year)]

\* Lines 129-134: add the new teams and commit.  A primary-key or
\* uniqueness conflict raises out of the loop: line 146 answers 500 and the
\* session closes without a commit (the run's record keeps the batch).
TeamCommitTeams(r) ==
    LET tr == trun[r]
        ids == [i \in 1..Len(tr.teams_to_add) |-> tr.teams_to_add[i].team_id]
        assocs == CascadedAssociations(tr)
        fails == \/ HasDuplicates(ids)
                 \/ SeqToSet(ids) \cap TeamKeys(db) # {}
                 \/ \E a \in assocs :
                       <<a.team_id, a.league_id, a.season_year>> \in TeamLeagueKeys(db)
    IN
    /\ tr.pc = "commit_teams"
    /\ IF fails
       THEN /\ trun' = [trun EXCEPT ![r] = [tr EXCEPT !.pc = "failed"]]
            /\ hist' = EndRequest(hist, FALSE)
            /\ UNCHANGED db
       ELSE /\ db' = [db EXCEPT !.teams = @ \cup SeqToSet(tr.teams_to_add),
                                !.team_leagues = @ \cup assocs]
            /\ trun' = [trun EXCEPT ![r] =
                           IF tr.associations_to_add # <<>>
                           THEN [tr EXCEPT !.pc = "commit_assocs"]
                           ELSE [tr EXCEPT !.pc = "fetch"]]
            /\ hist' = Inserted(hist, Len(tr.teams_to_add) + Cardinality(assocs))
    /\ UNCHANGED <<api, lrun, frun, drun, prun, srun>>

\* Lines 136-141: add the associations and commit.
TeamCommitAssocs(r) ==
    LET tr == trun[r]
        rows == PlainAssociations(tr)
        fails == \/ HasDuplicates(rows)
                 \/ \E a \in SeqToSet(rows) :
                       \/ <<a.team_id, a.league_id, a.season_year>> \in TeamLeagueKeys(db)
                       \/ a.team_id \notin TeamKeys(db)
    IN
    /\ tr.pc = "commit_assocs"
    /\ IF fails
       THEN /\ trun' = [trun EXCEPT ![r] = [tr EXCEPT !.pc = "failed"]]
            /\ hist' = EndRequest(hist, FALSE)
            /\ UNCHANGED db
       ELSE /\ db' = [db EXCEPT !.team_leagues = @ \cup SeqToSet(rows)]
            /\ trun' = [trun EXCEPT ![r] = [tr EXCEPT !.pc = "fetch"]]
            /\ hist' = Inserted(hist, Len(rows))
    /\ UNCHANGED <<api, lrun, frun, drun, prun, srun>>

\* Line 145 (and line 36 when there is no current season): the 200 answer.
TeamFinish(r) ==
    /\ trun[r].pc = "fetch"
    /\ trun[r].seasons = {}
    /\ trun' = [trun EXCEPT ![r] = [IdleTeamRun EXCEPT !.pc = "done"]]
    /\ hist' = EndRequest(hist, TRUE)
    /\ UNCHANGED <<db, api, lrun, frun, drun, prun, srun>>

(* ---------------------------------------------------------------------- *)
(* External source: GET /fixtures?league=<league_id>&season=<year>         *)
(* ---------------------------------------------------------------------- *)
MaxFixturesPerResp == 2

FixtureItem(id, home, away, venue, timezone, short, gh, ga) ==
    [id |-> id, round |-> "Regular Season - 1", home |-> home, away |-> away,
     venue |-> venue, timezone |-> timezone, status_short |-> short,
     goals_home |-> gh, goals_away |-> ga]

\* The records the modelled source serves: two well-formed fixtures (one
\* finished, one not started), the first one again with a later status, one
\* whose home team (35) is in no response of /teams, one without a home
\* team id, and one without a fixture id.
FixtureItems ==
    {FixtureItem(1001, 33, 34, 7, "UTC", "FT", 2, 0),
     FixtureItem(1002, 34, 33, NoId, "UTC", "NS", NoGoals, NoGoals),
     FixtureItem(1002, 34, 33, NoId, "UTC", "FT", 1, 1),
     FixtureItem(1003, 35, 34, NoId, "UTC", "NS", NoGoals, NoGoals),
     FixtureItem(1004, NoId, 34, NoId, "UTC", "NS", NoGoals, NoGoals),
     FixtureItem(NoId, 33, 34, 7, "UTC", "FT", 2, 0)}

FixtureFeeds ==
    {[status_code |-> 500, response |-> <<>>]}
    \cup {[status_code |-> 200, response |-> q] :
            q \in SeqsUpTo(FixtureItems, MaxFixturesPerResp)}

(* ---------------------------------------------------------------------- *)
(* POST /fixtures : fetch_and_store_fixtures (ingest_fixtures.py)          *)
(*   expired : a rollback has expired the Season objects the session       *)
(*             loaded at line 38                                           *)
(* ---------------------------------------------------------------------- *)
IdleFixtureRun ==
    [pc |-> "idle", seasons |-> {}, league_id |-> 0, season_year |-> 0,
     items |-> <<>>, expired |-> FALSE, fixtures_processed |-> 0]

final_statuses == {"FT", "AET", "PEN", "AWD", "WO"}

\* Lines 118-130: select(Team).filter(Team.team_id == id,
\* Team.season_year == season_year).  Building the filter reads the class
\* attribute Team.season_year; class Team has no such column, and the read
\* raises AttributeError before any query is sent.
TeamForSeason(d, team_id, season_year) ==
    IF "season_year" \notin TeamColumns
    THEN [raised |-> TRUE, rows |-> {}]
    ELSE [raised |-> FALSE,
          rows |-> {t \in d.teams :
                      t.team_id = team_id /\ t.season_year = season_year}]

\* Lines 136-158: the venue is fetched or created (and committed).
WithVenue(d, item) ==
    IF item.venue # NoId /\ ~\E v \in d.venues : v.id = item.venue
    THEN [d EXCEPT !.venues = @ \cup {Venue(item.venue, "venue")}]
    ELSE d

\* Lines 222-281: the update path; returns the row as it is committed.
UpdatedFixture(existing_fixture, item) ==
    LET new_status_short == item.status_short
        f1 == IF existing_fixture.status_short # new_status_short
              THEN [existing_fixture EXCEPT
                       !.status_short = new_status_short,
                       !.is_final = new_status_short \in final_statuses]
              ELSE existing_fixture
    IN [f1 EXCEPT !.goals_home = item.goals_home, !.goals_away = item.goals_away]

\* Lines 88-285: one record of the response, from the mapping to the commit.
\*   raised      : an exception reached line 282 (rollback, next record)
\*   rolled_back : the record called db.rollback() (lines 154, 213, 284)
ProcessFixture(d, item, league_id, season_year) ==
    LET skip == [db |-> d, raised |-> FALSE, rolled_back |-> FALSE,
                 inserted |-> 0, processed |-> 0]
        home_team_id == item.home
        away_team_id == item.away
    IN
    IF home_team_id = NoId \/ away_team_id = NoId THEN skip
    ELSE
    LET home_team == TeamForSeason(d, home_team_id, season_year)
        away_team == TeamForSeason(d, away_team_id, season_year)
    IN
    IF home_team.raised \/ away_team.raised
    THEN [skip EXCEPT !.raised = TRUE, !.rolled_back = TRUE]
    ELSE IF home_team.rows = {} \/ away_team.rows = {} THEN skip
    ELSE
    LET d1 == WithVenue(d, item)
        venues_added == Cardinality(d1.venues) - Cardinality(d.venues)
        fixture_id == item.id
        status_short == item.status_short
        is_final == status_short \in final_statuses
        existing == {f \in d1.fixtures : f.fixture_id = fixture_id}
        fixture == Fixture(fixture_id, league_id, season_year, item.round,
                           home_team_id, away_team_id, item.venue, item.timezone,
                           status_short, is_final, item.goals_home,
                           item.goals_away)
        \* NOT NULL columns; the foreign keys hold by the lookups above
        integrity_error == item.timezone = None \/ status_short = None
    IN
    IF fixture_id = NoId
    THEN [skip EXCEPT !.db = d1, !.inserted = venues_added]
    ELSE IF existing = {}
    THEN IF integrity_error
         THEN [skip EXCEPT !.db = d1, !.inserted = venues_added,
                           !.rolled_back = TRUE]
         ELSE [skip EXCEPT !.db = [d1 EXCEPT !.fixtures = @ \cup {fixture}],
                           !.inserted = venues_added + 1, !.processed = 1]
    ELSE LET existing_fixture == CHOOSE f \in existing : TRUE IN
         [skip EXCEPT !.db = [d1 EXCEPT !.fixtures =
                         (@ \ existing) \cup {UpdatedFixture(existing_fixture, item)}],
                      !.inserted = venues_added]

\* Lines 28-45: the API key is configured; SELECT the current seasons.
FixtureStart(r) ==
    LET seasons == {<<s.league_id, s.year>> : s \in {x \in db.seasons : x.current}} IN
    /\ frun[r].pc \in {"idle", "done", "failed"}
    /\ frun' = [frun EXCEPT ![r] =
                   [IdleFixtureRun EXCEPT !.pc = "fetch", !.seasons = seasons]]
    /\ hist' = BeginRequest(hist, "fixtures", db)
    /\ UNCHANGED <<db, lrun, trun, drun, prun, srun>>

\* Lines 55-86: the next season of the loop.  Line 56 reads season.league_id;
\* on a Season object that a rollback has expired the read has to reload the
\* row, which the async session cannot do outside an awaited call: the error
\* leaves the loop and line 289 answers 500.
FixtureFetch(r, resp) ==
    LET fr == frun[r] IN
    /\ fr.pc = "fetch"
    /\ \E season \in fr.seasons :
          IF fr.expired
          THEN /\ frun' = [frun EXCEPT ![r] = [IdleFixtureRun EXCEPT !.pc = "failed"]]
               /\ hist' = EndRequest(hist, FALSE)
          ELSE /\ frun' = [frun EXCEPT ![r] =
                              [fr EXCEPT
                                 !.seasons = @ \ {season},
                                 !.league_id = season[1],
                                 !.season_year = season[2],
                                 !.items = IF resp.status_code # 200 THEN <<>>
                                           ELSE resp.response,
                                 !.pc = IF resp.status_code # 200
                                           \/ resp.response = <<>>
                                        THEN "fetch" ELSE "items"]]
               /\ UNCHANGED hist
    /\ UNCHANGED <<db, api, lrun, trun, drun, prun, srun>>

\* Lines 88-285 for the next record; a caught exception rolls the session
\* back, which expires every object the session holds.
FixtureRecord(r) ==
    LET fr == frun[r]
        item == Head(fr.items)
        out == ProcessFixture(db, item, fr.league_id, fr.season_year)
    IN
    /\ fr.pc = "items"
    /\ db' = out.db
    /\ frun' = [frun EXCEPT ![r] =
                   [fr EXCEPT
                      !.items = Tail(fr.items),
                      !.expired = @ \/ out.rolled_back,
                      !.fixtures_processed = @ + out.processed,
                      !.pc = IF Tail(fr.items) = <<>> THEN "fetch" ELSE "items"]]
    /\ hist' = [Inserted(hist, out.inserted) EXCEPT
                   !.handled = @ \cup {[item |-> item, league_id |-> fr.league_id,
                                         season_year |-> fr.season_year]}]
    /\ UNCHANGED <<api, lrun, trun, drun, prun, srun>>

\* Lines 287-288 (line 43 when there is no current season): the 200 answer.
FixtureFinish(r) ==
    /\ frun[r].pc = "fetch"
    /\ frun[r].seasons = {}
    /\ frun' = [frun EXCEPT ![r] = [IdleFixtureRun EXCEPT !.pc = "done"]]
    /\ hist' = EndRequest(hist, TRUE)
    /\ UNCHANGED <<db, api, lrun, trun, drun, prun, srun>>

(* ---------------------------------------------------------------------- *)
(* External source: GET /odds?fixture=<fixture_id>                         *)
(* ---------------------------------------------------------------------- *)
ValueData(value, odd) == [value |-> value, odd |-> odd]

BetData(id, name, values) == [id |-> id, name |-> name, values |-> values]

BookmakerData(id, name, bets) == [id |-> id, name |-> name, bets |-> bets]

OddsData(fixture, update, bookmakers) ==
    [fixture |-> fixture, update |-> update, bookmakers |-> bookmakers]

\* datetime.fromisoformat(s.replace('Z', '+00:00')); None has no replace().
fromisoformat(s) ==
    IF s = None THEN [ok |-> FALSE, value |-> None]
    ELSE IF s = "2024-08-17T10:00:00Z"
         THEN [ok |-> TRUE, value |-> "2024-08-17T10:00:00+00:00"]
         ELSE [ok |-> TRUE, value |-> s]

\* The answers the modelled source gives for fixture 1001: a failure, no
\* odds, two different snapshots, a snapshot with an odd value that lacks
\* its odd, one without its update time, and one of another fixture.
OddsFeeds ==
    {[status_code |-> 500, response |-> <<>>],
     [status_code |-> 200, response |-> <<>>],
     [status_code |-> 200,
      response |-> <<OddsData(1001, "2024-08-16T10:00:00+00:00",
          <<BookmakerData(8, "Bet365",
              <<BetData(1, "Match Winner",
                  <<ValueData("Home", "1.50"), ValueData("Away", "2.50")>>)>>)>>)>>],
     [status_code |-> 200,
      response |-> <<OddsData(1001, "2024-08-17T10:00:00Z",
          <<BookmakerData(8, "Bet365",
              <<BetData(1, "Match Winner", <<ValueData("Home", "1.70")>>)>>),
            BookmakerData(6, "Bwin",
              <<BetData(5, "Goals Over/Under",
                  <<ValueData("Over 2.5", "1.90")>>)>>)>>)>>],
     [status_code |-> 200,
      response |-> <<OddsData(1001, "2024-08-16T10:00:00+00:00",
          <<BookmakerData(8, "Bet365",
              <<BetData(1, "Match Winner", <<ValueData("Home", None)>>)>>)>>)>>],
     [status_code |-> 200,
      response |-> <<OddsData(1001, None, <<>>)>>],
     [status_code |-> 200,
      response |-> <<OddsData(1002, "2024-08-16T10:00:00+00:00", <<>>)>>]}

(* ---------------------------------------------------------------------- *)
(* POST /fixtures_data : fetch_and_store_fixtures_data and the functions   *)
(* it calls for each fixture (ingest_fixtures_data.py)                     *)
(*   served        : the calls served so far                               *)
(*   fixture_rows  : the (fixture_id, status_short) rows still to process  *)
(*   odds_response, bookmakers, bets : what the three nested loops of      *)
(*                   fetch_and_store_odds_for_fixture have left to do      *)
(*   pending       : the OddValue objects added to the session and not     *)
(*                   yet flushed; any commit flushes them                  *)
(*   rows          : the statistics or events fetched and not yet stored   *)
(*   page, paging  : the page the next request of fetch_and_store_odds     *)
(*                   asks for, and the "paging" object of the last answer  *)
(*   requested     : the pages the odds fetch of the fixture has asked for *)
(*   delays        : the sleeps between the requests of that fetch         *)
(* ---------------------------------------------------------------------- *)
MaxDataRuns == 2

\* data.get("paging", {}): an answer without the object counts as page 1 of 1.
Paging(resp) ==
    IF "paging" \in DOMAIN resp THEN resp.paging ELSE [current |-> 1, total |-> 1]

IdleDataRun ==
    [pc |-> "idle", served |-> 0, fixture_rows |-> <<>>, fixture_id |-> 0,
     status_short |-> None, odds_response |-> <<>>, bookmakers |-> <<>>,
     bets |-> <<>>, fixture_odds_id |-> 0, fixture_bookmaker_id |-> 0,
     pending |-> <<>>, rows |-> <<>>, page |-> 1,
     paging |-> [current |-> 1, total |-> 1], requested |-> <<>>, delays |-> 0]

Ids(rows) == {x.id : x \in rows}

\* The rows of a fixture's odds tree, table by table.
OddsTree(d, fixture_id) ==
    LET fo == {o \in d.fixture_odds : o.fixture_id = fixture_id}
        fb == {b \in d.fixture_bookmakers : b.fixture_odds_id \in Ids(fo)}
        bt == {b \in d.bets : b.fixture_bookmaker_id \in Ids(fb)}
        ov == {v \in d.odd_values : v.bet_id \in Ids(bt)}
    IN [fixture_odds |-> fo, fixture_bookmakers |-> fb, bets |-> bt,
        odd_values |-> ov]

\* Mutant of DeleteFixtureOdds: the DELETE does not cascade.
DeleteFixtureOdds_NoCascade(d, fixture_id) ==
    [d EXCEPT !.fixture_odds = @ \ OddsTree(d, fixture_id).fixture_odds]

\* Lines 204-206: DELETE FROM fixture_odds WHERE fixture_id = :id; the
\* foreign keys of the three tables below are ON DELETE CASCADE.
DeleteFixtureOdds(d, fixture_id) ==
    LET tree == OddsTree(d, fixture_id) IN
    [d EXCEPT !.fixture_odds = @ \ tree.fixture_odds,
              !.fixture_bookmakers = @ \ tree.fixture_bookmakers,
              !.bets = @ \ tree.bets,
              !.odd_values = @ \ tree.odd_values]

\* The flush of the pending OddValue objects fails on a NULL odd and on a
\* bet that is gone.
FlushFails(d, pending) ==
    \E i \in 1..Len(pending) :
        pending[i].odd = None \/ pending[i].bet_id \notin Ids(d.bets)

Flush(d, pending) ==
    [d EXCEPT
        !.odd_values = @ \cup
            {OddValue(d.ids.odd_values + i, pending[i].bet_id,
                      pending[i].value, pending[i].odd) : i \in 1..Len(pending)},
        !.ids.odd_values = @ + Len(pending)]

\* Where the nested loops of lines 210-310 go on.
OddsPosition(dr) ==
    [dr EXCEPT !.pc = IF dr.bets # <<>> THEN "odds_bet"
                      ELSE IF dr.bookmakers # <<>> THEN "odds_bookmaker"
                      ELSE IF dr.odds_response # <<>> THEN "odds_data"
                      ELSE "odds_commit"]

\* Lines 316-321: the rollback drops what the session has not committed.
OddsFailed(dr) ==
    [dr EXCEPT !.pc = "odds_returned", !.odds_response = <<>>,
               !.bookmakers = <<>>, !.bets = <<>>, !.pending = <<>>]

\* History of the call of a replace function (odds, statistics, events):
\* the fixture, the ids of its rows before the call, the answer of the
\* source and how the call ended.
TreeCall(kind, fixture_id, before, resp) ==
    [kind |-> kind, fixture_id |-> fixture_id, before |-> before,
     response |-> resp.response, outcome |-> "running"]

OddsTreeIds(d, fixture_id) ==
    LET tree == OddsTree(d, fixture_id) IN
    [fixture_odds |-> Ids(tree.fixture_odds),
     fixture_bookmakers |-> Ids(tree.fixture_bookmakers),
     bets |-> Ids(tree.bets), odd_values |-> Ids(tree.odd_values)]

EndTreeCall(h, outcome) == [h EXCEPT !.tree.outcome = outcome]

\* Lines 177-207: fetch the odds; on an answer with odds, delete the
\* fixture's stored odds and commit.  The request names the fixture only,
\* which the source answers with page 1, and "paging" is not read.
OddsFetch(r, resp) ==
    LET dr == drun[r]
        call == TreeCall("odds", dr.fixture_id, OddsTreeIds(db, dr.fixture_id), resp)
    IN
    /\ dr.pc = "odds_fetch"
    /\ IF resp.status_code # 200 \/ resp.response = <<>>
       THEN /\ drun' = [drun EXCEPT ![r] =
                           [dr EXCEPT !.pc = "odds_returned", !.requested = <<1>>]]
            /\ hist' = [hist EXCEPT !.tree = [call EXCEPT !.outcome = "skipped"]]
            /\ UNCHANGED db
       ELSE /\ db' = DeleteFixtureOdds(db, dr.fixture_id)
            /\ drun' = [drun EXCEPT ![r] =
                           [dr EXCEPT !.pc = "odds_data", !.requested = <<1>>,
                                      !.odds_response = resp.response]]
            /\ hist' = [hist EXCEPT !.tree = call]
    /\ UNCHANGED <<api, lrun, trun, frun, prun, srun>>

\* Lines 210-228: the next entry of the answer; its FixtureOdds row is
\* inserted and committed (fixture_id is unique and references fixtures).
OddsEntry(r) ==
    LET dr == drun[r]
        odds_data == Head(dr.odds_response)
        rest == [dr EXCEPT !.odds_response = Tail(@)]
        update_time == fromisoformat(odds_data.update)
        id == db.ids.fixture_odds + 1
        integrity_error ==
            \/ \E o \in db.fixture_odds : o.fixture_id = dr.fixture_id
            \/ ~\E f \in db.fixtures : f.fixture_id = dr.fixture_id
            \/ FlushFails(db, dr.pending)
    IN
    /\ dr.pc = "odds_data"
    /\ IF odds_data.fixture # dr.fixture_id
       THEN /\ drun' = [drun EXCEPT ![r] = OddsPosition(rest)]
            /\ UNCHANGED <<db, hist>>
       ELSE IF ~update_time.ok \/ integrity_error
       THEN /\ drun' = [drun EXCEPT ![r] = OddsFailed(dr)]
            /\ hist' = EndTreeCall(hist, "failed")
            /\ UNCHANGED db
       ELSE /\ db' = [Flush(db, dr.pending) EXCEPT
                         !.fixture_odds = @ \cup
                             {FixtureOdds(id, dr.fixture_id, update_time.value)},
                         !.ids.fixture_odds = id]
            /\ drun' = [drun EXCEPT ![r] =
                           OddsPosition([rest EXCEPT
                               !.fixture_odds_id = id,
                               !.bookmakers = odds_data.bookmakers,
                               !.pending = <<>>])]
            /\ UNCHANGED hist
    /\ UNCHANGED <<api, lrun, trun, frun, prun, srun>>

\* Lines 231-263: the next bookmaker of the entry: the Bookmaker row is
\* fetched or created (commit), the FixtureBookmaker row inserted (commit).
\* A Bookmaker insert that fails is rolled back; the code then reads
\* bookmaker.id of the row it selects again, or fixture_odds.id of the
\* object the rollback has expired, and either read raises.
OddsBookmaker(r) ==
    LET dr == drun[r]
        bookmaker_data == Head(dr.bookmakers)
        found == \E b \in db.bookmakers : b.id = bookmaker_data.id
        bookmaker_error ==
            /\ ~found
            /\ \/ bookmaker_data.name = None
               \/ \E b \in db.bookmakers : b.name = bookmaker_data.name
               \/ FlushFails(db, dr.pending)
        d1 == IF found THEN db
              ELSE [Flush(db, dr.pending) EXCEPT
                       !.bookmakers = @ \cup
                           {Bookmaker(bookmaker_data.id, bookmaker_data.name)}]
        pending == IF found THEN dr.pending ELSE <<>>
        id == d1.ids.fixture_bookmakers + 1
        integrity_error ==
            \/ dr.fixture_odds_id \notin Ids(d1.fixture_odds)
            \/ FlushFails(d1, pending)
    IN
    /\ dr.pc = "odds_bookmaker"
    /\ IF bookmaker_error
       THEN /\ drun' = [drun EXCEPT ![r] = OddsFailed(dr)]
            /\ hist' = EndTreeCall(hist, "failed")
            /\ UNCHANGED db
       ELSE IF integrity_error
       THEN /\ db' = d1
            /\ drun' = [drun EXCEPT ![r] = OddsFailed(dr)]
            /\ hist' = EndTreeCall(hist, "failed")
       ELSE /\ db' = [Flush(d1, pending) EXCEPT
                         !.fixture_bookmakers = @ \cup
                             {FixtureBookmaker(id, dr.fixture_odds_id,
                                               bookmaker_data.id)},
                         !.ids.fixture_bookmakers = id]
            /\ drun' = [drun EXCEPT ![r] =
                           OddsPosition([dr EXCEPT
                               !.bookmakers = Tail(@),
                               !.fixture_bookmaker_id = id,
                               !.bets = bookmaker_data.bets,
                               !.pending = <<>>])]
            /\ UNCHANGED hist
    /\ UNCHANGED <<api, lrun, trun, frun, prun, srun>>

\* Lines 266-310: the next bet of the bookmaker: the BetType row is fetched
\* or created (commit), the Bet row inserted (commit), and the bet's values
\* are added to the session.
OddsBet(r) ==
    LET dr == drun[r]
        bet_data == Head(dr.bets)
        found == \E b \in db.bet_types : b.id = bet_data.id
        bet_type_error ==
            /\ ~found
            /\ \/ bet_data.name = None
               \/ \E b \in db.bet_types : b.name = bet_data.name
               \/ FlushFails(db, dr.pending)
        d1 == IF found THEN db
              ELSE [Flush(db, dr.pending) EXCEPT
                       !.bet_types = @ \cup {BetType(bet_data.id, bet_data.name)}]
        pending == IF found THEN dr.pending ELSE <<>>
        id == d1.ids.bets + 1
        integrity_error ==
            \/ dr.fixture_bookmaker_id \notin Ids(d1.fixture_bookmakers)
            \/ FlushFails(d1, pending)
        odd_values == [i \in 1..Len(bet_data.values) |->
                          [bet_id |-> id, value |-> bet_data.values[i].value,
                           odd |-> bet_data.values[i].odd]]
    IN
    /\ dr.pc = "odds_bet"
    /\ IF bet_type_error
       THEN /\ drun' = [drun EXCEPT ![r] = OddsFailed(dr)]
            /\ hist' = EndTreeCall(hist, "failed")
            /\ UNCHANGED db
       ELSE IF integrity_error
       THEN /\ db' = d1
            /\ drun' = [drun EXCEPT ![r] = OddsFailed(dr)]
            /\ hist' = EndTreeCall(hist, "failed")
       ELSE /\ db' = [Flush(d1, pending) EXCEPT
                         !.bets = @ \cup
                             {Bet(id, dr.fixture_bookmaker_id, bet_data.id)},
                         !.ids.bets = id]
            /\ drun' = [drun EXCEPT ![r] =
                           OddsPosition([dr EXCEPT !.bets = Tail(@),
                                                   !.pending = odd_values])]
            /\ UNCHANGED hist
    /\ UNCHANGED <<api, lrun, trun, frun, prun, srun>>

\* Lines 312-321: the closing commit writes the values still pending.
OddsCommit(r) ==
    LET dr == drun[r] IN
    /\ dr.pc = "odds_commit"
    /\ IF FlushFails(db, dr.pending)
       THEN /\ drun' = [drun EXCEPT ![r] = OddsFailed(dr)]
            /\ hist' = EndTreeCall(hist, "failed")
            /\ UNCHANGED db
       ELSE /\ db' = Flush(db, dr.pending)
            /\ drun' = [drun EXCEPT ![r] =
                           [dr EXCEPT !.pc = "odds_returned", !.pending = <<>>]]
            /\ hist' = EndTreeCall(hist, "completed")
    /\ UNCHANGED <<api, lrun, trun, frun, prun, srun>>

(* ---------------------------------------------------------------------- *)
(* External source: GET /predictions, /fixtures/statistics and             *)
(* /fixtures/events, all with ?fixture=<fixture_id>                        *)
(* ---------------------------------------------------------------------- *)
\* winner : predictions.winner.id, NoId when the source names no winner;
\* team 35 is in no response of /teams.
PredictionFeeds ==
    {[status_code |-> 500, response |-> <<>>],
     [status_code |-> 200, response |-> <<>>],
     [status_code |-> 200, response |-> <<[winner |-> 33, advice |-> "Home"]>>],
     [status_code |-> 200, response |-> <<[winner |-> NoId, advice |-> "Draw"]>>],
     [status_code |-> 200, response |-> <<[winner |-> 35, advice |-> "Away"]>>]}

\* team : the "team" object's id; NoId when the object or its id is absent.
StatisticsFeeds ==
    {[status_code |-> 500, response |-> <<>>],
     [status_code |-> 200, response |-> <<[team |-> 33], [team |-> 34]>>],
     [status_code |-> 200, response |-> <<[team |-> 33], [team |-> NoId]>>]}

\* time : the "time" object is present; without it event_data['time']
\* raises KeyError.
EventFeeds ==
    {[status_code |-> 500, response |-> <<>>],
     [status_code |-> 200,
      response |-> <<[time |-> TRUE, elapsed |-> 12, team |-> 33, type |-> "Goal"],
                     [time |-> TRUE, elapsed |-> 80, team |-> 34, type |-> "Card"]>>],
     [status_code |-> 200,
      response |-> <<[time |-> TRUE, elapsed |-> 12, team |-> 33, type |-> "Goal"],
                     [time |-> FALSE, elapsed |-> 0, team |-> 34, type |-> "Card"]>>]}

\* Line 72: the statuses of a match that has been played.
played_statuses == {"FT", "AET", "PEN", "AWD", "WO"}

\* Line 62: the next fixture of the loop, or the end of the loop.
NextFixture(dr) ==
    IF dr.fixture_rows = <<>>
    THEN [dr EXCEPT !.pc = "finish", !.fixture_id = 0, !.status_short = None]
    ELSE [dr EXCEPT !.pc = "prediction",
                    !.fixture_id = Head(dr.fixture_rows)[1],
                    !.status_short = Head(dr.fixture_rows)[2],
                    !.fixture_rows = Tail(@)]

\* The orders in which a SELECT without ORDER BY may return the rows.
Orderings(S) ==
    {q \in [1..Cardinality(S) -> S] : \A i, j \in DOMAIN q : i # j => q[i] # q[j]}

\* Lines 28-60: SELECT the fixtures of the date window; every stored
\* fixture is taken to lie in the window.
DataStart(r) ==
    LET dr == drun[r]
        rows == {<<f.fixture_id, f.status_short>> : f \in db.fixtures}
    IN
    /\ dr.pc \in {"idle", "done", "post_done", "post_failed", "post_interrupted"}
    /\ dr.served < MaxDataRuns
    /\ \E fixture_rows \in Orderings(rows) :
          drun' = [drun EXCEPT ![r] =
                      NextFixture([IdleDataRun EXCEPT
                                      !.served = dr.served + 1,
                                      !.fixture_rows = fixture_rows])]
    /\ hist' = BeginRequest(hist, "fixtures_data", db)
    /\ UNCHANGED <<db, api, lrun, trun, frun, prun, srun>>

\* The upsert both prediction functions end with: set the fields of the row
\* the lookup has found, or add a new row, and commit.  fixture_id is
\* unique and references fixtures; winner_team_id references teams.
StorePrediction(d, existing_prediction, fixture_id, prediction_data) ==
    LET id == d.ids.predictions + 1
        \* the IntegrityError of the commit, by the constraint that fails
        error ==
            IF existing_prediction = {}
                  /\ \E p \in d.predictions : p.fixture_id = fixture_id
            THEN "UniqueViolation"
            ELSE IF \/ prediction_data.winner # NoId
                          /\ prediction_data.winner \notin TeamKeys(d)
                    \/ ~\E f \in d.fixtures : f.fixture_id = fixture_id
            THEN "ForeignKeyViolation"
            ELSE "none"
        updated == {[p EXCEPT !.winner_team_id = prediction_data.winner,
                              !.advice = prediction_data.advice] :
                       p \in existing_prediction}
        prediction == Prediction(id, fixture_id, prediction_data.winner,
                                 prediction_data.advice)
    IN
    IF error # "none" THEN [error |-> error, db |-> d]
    ELSE IF existing_prediction # {}
    THEN [error |-> error,
          db |-> [d EXCEPT !.predictions = (@ \ existing_prediction) \cup updated]]
    ELSE [error |-> error,
          db |-> [d EXCEPT !.predictions = @ \cup {prediction},
                           !.ids.predictions = id]]

\* History: the prediction fetched last for the fixture, among those the
\* store can hold (the winner is a stored team or absent).
Fetched(h, d, fixture_id, prediction_data) ==
    IF prediction_data.winner = NoId \/ prediction_data.winner \in TeamKeys(d)
    THEN [h EXCEPT !.fetched_prediction[fixture_id] = prediction_data]
    ELSE h

\* Lines 89-173: fetch_and_store_prediction_for_fixture; the row is looked
\* up by fixture_id (lines 129-132), and any exception is rolled back and
\* logged.
DataPrediction(r, resp) ==
    LET dr == drun[r]
        prediction_data == resp.response[1]
        existing_prediction == {p \in db.predictions : p.fixture_id = dr.fixture_id}
    IN
    /\ dr.pc = "prediction"
    /\ IF resp.status_code # 200 \/ resp.response = <<>>
       THEN UNCHANGED <<db, hist>>
       ELSE /\ db' = StorePrediction(db, existing_prediction, dr.fixture_id,
                                     prediction_data).db
            /\ hist' = Fetched(hist, db, dr.fixture_id, prediction_data)
    /\ drun' = [drun EXCEPT ![r].pc = "odds_fetch"]
    /\ UNCHANGED <<api, lrun, trun, frun, prun, srun>>

\* Lines 69-79: after the odds, the statistics and events of a played match.
DataAfterOdds(r) ==
    LET dr == drun[r] IN
    /\ dr.pc = "odds_returned"
    /\ drun' = [drun EXCEPT ![r] =
                   IF dr.status_short \in played_statuses
                   THEN [dr EXCEPT !.pc = "stats_fetch"]
                   ELSE NextFixture(dr)]
    /\ UNCHANGED <<db, api, lrun, trun, frun, hist, prun, srun>>

\* Lines 324-355 with the DELETE of lines 351-355 moved before the checks
\* of lines 338-349: the stored statistics are deleted whatever the answer.
StatsFetch_DeleteFirst(r, resp) ==
    LET dr == drun[r]
        stored == {m \in db.match_statistics : m.fixture_id = dr.fixture_id}
        call == TreeCall("statistics", dr.fixture_id, Ids(stored), resp)
    IN
    /\ dr.pc = "stats_fetch"
    /\ db' = [db EXCEPT !.match_statistics = @ \ stored]
    /\ IF resp.status_code # 200 \/ resp.response = <<>>
       THEN /\ drun' = [drun EXCEPT ![r].pc = "events_fetch"]
            /\ hist' = [hist EXCEPT !.tree = [call EXCEPT !.outcome = "skipped"]]
       ELSE /\ drun' = [drun EXCEPT ![r] =
                           [dr EXCEPT !.pc = "stats_store", !.rows = resp.response]]
            /\ hist' = [hist EXCEPT !.tree = call]
    /\ UNCHANGED <<api, lrun, trun, frun, prun, srun>>

\* Lines 324-355: fetch the statistics; on an answer with statistics,
\* delete the fixture's stored statistics and commit.
StatsFetch(r, resp) ==
    LET dr == drun[r]
        stored == {m \in db.match_statistics : m.fixture_id = dr.fixture_id}
        call == TreeCall("statistics", dr.fixture_id, Ids(stored), resp)
    IN
    /\ dr.pc = "stats_fetch"
    /\ IF resp.status_code # 200 \/ resp.response = <<>>
       THEN /\ drun' = [drun EXCEPT ![r].pc = "events_fetch"]
            /\ hist' = [hist EXCEPT !.tree = [call EXCEPT !.outcome = "skipped"]]
            /\ UNCHANGED db
       ELSE /\ db' = [db EXCEPT !.match_statistics = @ \ stored]
            /\ drun' = [drun EXCEPT ![r] =
                           [dr EXCEPT !.pc = "stats_store", !.rows = resp.response]]
            /\ hist' = [hist EXCEPT !.tree = call]
    /\ UNCHANGED <<api, lrun, trun, frun, prun, srun>>

\* Lines 358-375: add one row per team and commit; team_id is NOT NULL,
\* references teams and is unique per fixture.  A failure is rolled back.
StatsStore(r) ==
    LET dr == drun[r]
        statistics_response == dr.rows
        integrity_error ==
            \/ \E i \in DOMAIN statistics_response :
                  \/ statistics_response[i].team = NoId
                  \/ statistics_response[i].team \notin TeamKeys(db)
            \/ HasDuplicates(statistics_response)
            \/ ~\E f \in db.fixtures : f.fixture_id = dr.fixture_id
        new == {MatchStatistics(db.ids.match_statistics + i, dr.fixture_id,
                                statistics_response[i].team) :
                  i \in DOMAIN statistics_response}
    IN
    /\ dr.pc = "stats_store"
    /\ IF integrity_error
       THEN /\ hist' = EndTreeCall(hist, "failed")
            /\ UNCHANGED db
       ELSE /\ db' = [db EXCEPT !.match_statistics = @ \cup new,
                                !.ids.match_statistics = @ + Len(statistics_response)]
            /\ hist' = EndTreeCall(hist, "completed")
    /\ drun' = [drun EXCEPT ![r] = [dr EXCEPT !.pc = "events_fetch", !.rows = <<>>]]
    /\ UNCHANGED <<api, lrun, trun, frun, prun, srun>>

\* Lines 378-409: fetch the events; on an answer with events, delete the
\* fixture's stored events and commit.
EventsFetch(r, resp) ==
    LET dr == drun[r]
        stored == {e \in db.match_events : e.fixture_id = dr.fixture_id}
        call == TreeCall("events", dr.fixture_id, Ids(stored), resp)
    IN
    /\ dr.pc = "events_fetch"
    /\ IF resp.status_code # 200 \/ resp.response = <<>>
       THEN /\ drun' = [drun EXCEPT ![r] = NextFixture(dr)]
            /\ hist' = [hist EXCEPT !.tree = [call EXCEPT !.outcome = "skipped"]]
            /\ UNCHANGED db
       ELSE /\ db' = [db EXCEPT !.match_events = @ \ stored]
            /\ drun' = [drun EXCEPT ![r] =
                           [dr EXCEPT !.pc = "events_store", !.rows = resp.response]]
            /\ hist' = [hist EXCEPT !.tree = call]
    /\ UNCHANGED <<api, lrun, trun, frun, prun, srun>>

\* Lines 412-431: add one row per event and commit.  An event without its
\* "time" object raises KeyError at line 416; team_id references teams.
EventsStore(r) ==
    LET dr == drun[r]
        events_response == dr.rows
        key_error == \E i \in DOMAIN events_response : ~events_response[i].time
        integrity_error ==
            \/ \E i \in DOMAIN events_response :
                  events_response[i].team \notin TeamKeys(db)
            \/ ~\E f \in db.fixtures : f.fixture_id = dr.fixture_id
        new == {MatchEvent(db.ids.match_events + i, dr.fixture_id,
                           events_response[i].elapsed, events_response[i].team,
                           events_response[i].type) :
                  i \in DOMAIN events_response}
    IN
    /\ dr.pc = "events_store"
    /\ IF key_error \/ integrity_error
       THEN /\ hist' = EndTreeCall(hist, "failed")
            /\ UNCHANGED db
       ELSE /\ db' = [db EXCEPT !.match_events = @ \cup new,
                                !.ids.match_events = @ + Len(events_response)]
            /\ hist' = EndTreeCall(hist, "completed")
    /\ drun' = [drun EXCEPT ![r] = NextFixture([dr EXCEPT !.rows = <<>>])]
    /\ UNCHANGED <<api, lrun, trun, frun, prun, srun>>

\* Lines 81-82 (line 58 when the window holds no fixture): the 200 answer.
DataFinish(r) ==
    /\ drun[r].pc = "finish"
    /\ drun' = [drun EXCEPT ![r].pc = "done"]
    /\ hist' = EndRequest(hist, TRUE)
    /\ UNCHANGED <<db, api, lrun, trun, frun, prun, srun>>

\* Line 69 on its own: fetch_and_store_odds_for_fixture is called for a
\* stored fixture.
MaxOddsCalls == 2

OddsCall(r, fixture_id) ==
    LET dr == drun[r] IN
    /\ dr.pc \in {"idle", "odds_returned"}
    /\ dr.served < MaxOddsCalls
    /\ \E f \in db.fixtures : f.fixture_id = fixture_id
    /\ drun' = [drun EXCEPT ![r] =
                   [IdleDataRun EXCEPT !.pc = "odds_fetch",
                                       !.served = dr.served + 1,
                                       !.fixture_id = fixture_id]]
    /\ UNCHANGED <<db, api, lrun, trun, frun, hist, prun, srun>>

(* ---------------------------------------------------------------------- *)
(* POST /odds : fetch_and_store_odds (ingest_odds.py).  The API key is     *)
(* configured; every stored fixture is taken to lie in the window of 14    *)
(* days.  The request uses the fields of a data run; nothing inside the    *)
(* loops catches an exception, so the first one reaches line 182: 500.     *)
(* ---------------------------------------------------------------------- *)
\* Lines 108-165: where the loops over bookmakers and bets go on; after the
\* last bet of the last bookmaker comes the commit of line 168.
PostOddsPosition(dr) ==
    [dr EXCEPT !.pc = IF dr.bets # <<>> THEN "post_bet"
                      ELSE IF dr.bookmakers # <<>> THEN "post_bookmaker"
                      ELSE "post_commit"]

\* Lines 85 and 171-177: the next entry of the page; after the last one
\* the next page when the answer says there is one (no sleep before it),
\* else the next fixture.
PostOddsNext(dr) ==
    IF dr.odds_response # <<>> THEN [dr EXCEPT !.pc = "post_data"]
    ELSE IF dr.paging.current >= dr.paging.total
    THEN [dr EXCEPT !.pc = "post_fetch", !.page = 1]
    ELSE [dr EXCEPT !.pc = "post_fetch", !.page = @ + 1]

\* Lines 182-184: the exception ends the request; what the session has not
\* committed is dropped with it.
PostOddsFailed(dr) ==
    [dr EXCEPT !.pc = "post_failed", !.odds_response = <<>>, !.bookmakers = <<>>,
               !.bets = <<>>, !.pending = <<>>, !.fixture_rows = <<>>]

\* Lines 27-56: SELECT the ids of the fixtures of the window; none -> answer
\* at once.
PostOddsStart(r) ==
    LET dr == drun[r]
        rows == {<<f.fixture_id, f.status_short>> : f \in db.fixtures}
    IN
    /\ dr.pc \in {"idle", "done", "post_done", "post_failed", "post_interrupted"}
    /\ dr.served < MaxOddsCalls
    /\ \E fixture_rows \in Orderings(rows) :
          drun' = [drun EXCEPT ![r] =
                      [IdleDataRun EXCEPT
                          !.pc = IF rows = {} THEN "post_done" ELSE "post_fetch",
                          !.served = dr.served + 1,
                          !.fixture_rows = fixture_rows]]
    /\ hist' = IF rows = {} THEN EndRequest(BeginRequest(hist, "odds", db), TRUE)
               ELSE BeginRequest(hist, "odds", db)
    /\ UNCHANGED <<db, lrun, trun, frun, prun, srun>>

\* Lines 57-83: request page `page` of the odds of a fixture: page 1 of the
\* next fixture, or the next page of the fixture in hand.  A status other
\* than 200 or an empty answer ends the fixture.
PostOddsFetch(r, resp) ==
    LET dr == drun[r]
        next == IF dr.page > 1
                THEN [dr EXCEPT !.requested = Append(@, dr.page)]
                ELSE [dr EXCEPT !.fixture_id = Head(dr.fixture_rows)[1],
                                !.fixture_rows = Tail(@),
                                !.requested = <<1>>, !.delays = 0]
    IN
    /\ dr.pc = "post_fetch"
    /\ dr.page > 1 \/ dr.fixture_rows # <<>>
    /\ drun' = [drun EXCEPT ![r] =
                   IF resp.status_code # 200 \/ resp.response = <<>>
                   THEN [next EXCEPT !.page = 1]
                   ELSE [next EXCEPT !.pc = "post_data",
                                     !.odds_response = resp.response,
                                     !.paging = Paging(resp)]]
    /\ UNCHANGED <<db, api, lrun, trun, frun, prun, srun, hist>>

\* Lines 85-105: the next entry of the page; its FixtureOdds row is added
\* and committed (fixture_id is unique and references fixtures).
PostOddsEntry(r) ==
    LET dr == drun[r]
        odds_data == Head(dr.odds_response)
        rest == [dr EXCEPT !.odds_response = Tail(@)]
        update_time == fromisoformat(odds_data.update)
        id == db.ids.fixture_odds + 1
        integrity_error ==
            \/ \E o \in db.fixture_odds : o.fixture_id = dr.fixture_id
            \/ ~\E f \in db.fixtures : f.fixture_id = dr.fixture_id
            \/ FlushFails(db, dr.pending)
    IN
    /\ dr.pc = "post_data"
    /\ IF odds_data.fixture # dr.fixture_id
       THEN /\ drun' = [drun EXCEPT ![r] = PostOddsNext(rest)]
            /\ UNCHANGED <<db, hist>>
       ELSE IF ~update_time.ok \/ integrity_error
       THEN /\ drun' = [drun EXCEPT ![r] = PostOddsFailed(dr)]
            /\ hist' = EndRequest(hist, FALSE)
            /\ UNCHANGED db
       ELSE /\ db' = [Flush(db, dr.pending) EXCEPT
                         !.fixture_odds = @ \cup
                             {FixtureOdds(id, dr.fixture_id, update_time.value)},
                         !.ids.fixture_odds = id]
            /\ drun' = [drun EXCEPT ![r] =
                           PostOddsPosition([rest EXCEPT
                               !.fixture_odds_id = id,
                               !.bookmakers = odds_data.bookmakers,
                               !.pending = <<>>])]
            /\ hist' = Inserted(hist, 1)
    /\ UNCHANGED <<api, lrun, trun, frun, prun, srun>>

\* Lines 108-129: the next bookmaker of the entry: the Bookmaker row is
\* fetched or created (commit), the FixtureBookmaker row added (commit).
PostOddsBookmaker(r) ==
    LET dr == drun[r]
        bookmaker_data == Head(dr.bookmakers)
        found == \E b \in db.bookmakers : b.id = bookmaker_data.id
        bookmaker_error ==
            /\ ~found
            /\ \/ bookmaker_data.name = None
               \/ \E b \in db.bookmakers : b.name = bookmaker_data.name
               \/ FlushFails(db, dr.pending)
        d1 == IF found THEN db
              ELSE [Flush(db, dr.pending) EXCEPT
                       !.bookmakers = @ \cup
                           {Bookmaker(bookmaker_data.id, bookmaker_data.name)}]
        pending == IF found THEN dr.pending ELSE <<>>
        id == d1.ids.fixture_bookmakers + 1
        integrity_error ==
            \/ dr.fixture_odds_id \notin Ids(d1.fixture_odds)
            \/ FlushFails(d1, pending)
    IN
    /\ dr.pc = "post_bookmaker"
    /\ IF bookmaker_error \/ integrity_error
       THEN /\ db' = IF bookmaker_error THEN db ELSE d1
            /\ drun' = [drun EXCEPT ![r] = PostOddsFailed(dr)]
            /\ hist' = EndRequest(hist, FALSE)
       ELSE /\ db' = [Flush(d1, pending) EXCEPT
                         !.fixture_bookmakers = @ \cup
                             {FixtureBookmaker(id, dr.fixture_odds_id,
                                               bookmaker_data.id)},
                         !.ids.fixture_bookmakers = id]
            /\ drun' = [drun EXCEPT ![r] =
                           PostOddsPosition([dr EXCEPT
                               !.bookmakers = Tail(@),
                               !.fixture_bookmaker_id = id,
                               !.bets = bookmaker_data.bets,
                               !.pending = <<>>])]
            /\ hist' = Inserted(hist, 1)
    /\ UNCHANGED <<api, lrun, trun, frun, prun, srun>>

\* Lines 132-165: the next bet of the bookmaker: the BetType row is fetched
\* or created (commit), the Bet row added (commit), and the bet's values
\* are added to the session.
PostOddsBet(r) ==
    LET dr == drun[r]
        bet_data == Head(dr.bets)
        found == \E b \in db.bet_types : b.id = bet_data.id
        bet_type_error ==
            /\ ~found
            /\ \/ bet_data.name = None
               \/ \E b \in db.bet_types : b.name = bet_data.name
               \/ FlushFails(db, dr.pending)
        d1 == IF found THEN db
              ELSE [Flush(db, dr.pending) EXCEPT
                       !.bet_types = @ \cup {BetType(bet_data.id, bet_data.name)}]
        pending == IF found THEN dr.pending ELSE <<>>
        id == d1.ids.bets + 1
        integrity_error ==
            \/ dr.fixture_bookmaker_id \notin Ids(d1.fixture_bookmakers)
            \/ FlushFails(d1, pending)
        odd_values == [i \in 1..Len(bet_data.values) |->
                          [bet_id |-> id, value |-> bet_data.values[i].value,
                           odd |-> bet_data.values[i].odd]]
    IN
    /\ dr.pc = "post_bet"
    /\ IF bet_type_error \/ integrity_error
       THEN /\ db' = IF bet_type_error THEN db ELSE d1
            /\ drun' = [drun EXCEPT ![r] = PostOddsFailed(dr)]
            /\ hist' = EndRequest(hist, FALSE)
       ELSE /\ db' = [Flush(d1, pending) EXCEPT
                         !.bets = @ \cup
                             {Bet(id, dr.fixture_bookmaker_id, bet_data.id)},
                         !.ids.bets = id]
            /\ drun' = [drun EXCEPT ![r] =
                           PostOddsPosition([dr EXCEPT !.bets = Tail(@),
                                                       !.pending = odd_values])]
            /\ hist' = Inserted(hist, 1)
    /\ UNCHANGED <<api, lrun, trun, frun, prun, srun>>

\* Line 168: the commit that closes the entry writes the values pending.
PostOddsCommit(r) ==
    LET dr == drun[r] IN
    /\ dr.pc = "post_commit"
    /\ IF FlushFails(db, dr.pending)
       THEN /\ drun' = [drun EXCEPT ![r] = PostOddsFailed(dr)]
            /\ hist' = EndRequest(hist, FALSE)
            /\ UNCHANGED db
       ELSE /\ db' = Flush(db, dr.pending)
            /\ drun' = [drun EXCEPT ![r] = PostOddsNext([dr EXCEPT !.pending = <<>>])]
            /\ hist' = Inserted(hist, Len(dr.pending))
    /\ UNCHANGED <<api, lrun, trun, frun, prun, srun>>

\* Lines 179-180: the 200 answer after the last fixture.
PostOddsFinish(r) ==
    /\ drun[r].pc = "post_fetch"
    /\ drun[r].page = 1
    /\ drun[r].fixture_rows = <<>>
    /\ drun' = [drun EXCEPT ![r].pc = "post_done"]
    /\ hist' = EndRequest(hist, TRUE)
    /\ UNCHANGED <<db, api, lrun, trun, frun, prun, srun>>

\* The request is interrupted (the process is stopped) after one of its
\* commits: what is committed stays, what the session holds is gone.
PostOddsInterrupt(r) ==
    LET dr == drun[r] IN
    /\ dr.pc \in {"post_fetch", "post_data", "post_bookmaker", "post_bet",
                  "post_commit"}
    /\ hist.inserted > 0
    /\ drun' = [drun EXCEPT ![r] =
                   [PostOddsFailed(dr) EXCEPT !.pc = "post_interrupted"]]
    /\ hist' = [EndRequest(hist, FALSE) EXCEPT !.interrupted = TRUE]
    /\ UNCHANGED <<db, api, lrun, trun, frun, prun, srun>>

(* ---------------------------------------------------------------------- *)
(* POST /predictions : fetch_and_store_predictions (ingest_predictions.py) *)
(* What the source may do on GET /predictions?fixture=<fixture_id>:        *)
(*   raised : client.get raises httpx.RequestError (no connection, timeout)*)
(*   json   : the body is JSON                                             *)
(* ---------------------------------------------------------------------- *)
PredictionBehaviours ==
    {[raised |-> FALSE, json |-> TRUE, status_code |-> f.status_code,
      response |-> f.response] : f \in PredictionFeeds}
    \cup {[raised |-> TRUE, json |-> FALSE, status_code |-> 0, response |-> <<>>],
          [raised |-> FALSE, json |-> FALSE, status_code |-> 200, response |-> <<>>]}

\*   error : the exception that has ended the request
IdlePredictionRun ==
    [pc |-> "idle", fixture_ids |-> <<>>, predictions_processed |-> 0,
     error |-> "none"]

\* Lines 26-48: the API key is configured; SELECT every fixture id; none ->
\* answer at once.
PredictionsStart(r) ==
    LET rows == {f.fixture_id : f \in db.fixtures} IN
    /\ prun[r].pc \in {"idle", "done", "failed"}
    /\ \E fixture_ids \in Orderings(rows) :
          prun' = [prun EXCEPT ![r] =
                      [IdlePredictionRun EXCEPT
                          !.pc = IF fixture_ids = <<>> THEN "done" ELSE "fetch",
                          !.fixture_ids = fixture_ids]]
    /\ hist' = IF rows = {}
               THEN EndRequest(BeginRequest(hist, "predictions", db), TRUE)
               ELSE BeginRequest(hist, "predictions", db)
    /\ UNCHANGED <<db, api, lrun, trun, frun, drun, srun>>

\* Line 87: db.get(models.Prediction, fixture_id) looks the row up by its
\* primary key, the serial id, with the fixture's id as the value.
GetPrediction(d, fixture_id) == {p \in d.predictions : p.id = fixture_id}

\* Lines 50-119: one fixture of the loop.  Nothing inside the loop catches
\* an exception: a transport error, a body that is not JSON and a failed
\* commit all reach line 124, which answers 500.
PredictionsFetch(r, resp) ==
    LET pr == prun[r]
        fixture_id == Head(pr.fixture_ids)
        next == [pr EXCEPT !.fixture_ids = Tail(@)]
        failed(error) == [pr EXCEPT !.pc = "failed", !.error = error]
        prediction_data == resp.response[1]
        stored == StorePrediction(db, GetPrediction(db, fixture_id), fixture_id,
                                  prediction_data)
    IN
    /\ pr.pc = "fetch"
    /\ pr.fixture_ids # <<>>
    /\ IF resp.raised
       THEN /\ prun' = [prun EXCEPT ![r] = failed("RequestError")]
            /\ hist' = EndRequest(hist, FALSE)
            /\ UNCHANGED db
       ELSE IF resp.status_code # 200
       THEN /\ prun' = [prun EXCEPT ![r] = next]
            /\ UNCHANGED <<db, hist>>
       ELSE IF ~resp.json
       THEN /\ prun' = [prun EXCEPT ![r] = failed("JSONDecodeError")]
            /\ hist' = EndRequest(hist, FALSE)
            /\ UNCHANGED db
       ELSE IF resp.response = <<>>
       THEN /\ prun' = [prun EXCEPT ![r] = next]
            /\ UNCHANGED <<db, hist>>
       ELSE IF stored.error # "none"
       THEN /\ prun' = [prun EXCEPT ![r] = failed(stored.error)]
            /\ hist' = EndRequest(Fetched(hist, db, fixture_id, prediction_data),
                                  FALSE)
            /\ UNCHANGED db
       ELSE /\ db' = stored.db
            /\ prun' = [prun EXCEPT ![r] =
                           [next EXCEPT !.predictions_processed = @ + 1]]
            /\ hist' = Fetched(hist, db, fixture_id, prediction_data)
    /\ UNCHANGED <<api, lrun, trun, frun, drun, srun>>

\* Lines 121-122: the 200 answer.
PredictionsFinish(r) ==
    /\ prun[r].pc = "fetch"
    /\ prun[r].fixture_ids = <<>>
    /\ prun' = [prun EXCEPT ![r].pc = "done"]
    /\ hist' = EndRequest(hist, TRUE)
    /\ UNCHANGED <<db, api, lrun, trun, frun, drun, srun>>

\* Line 66 of ingest_fixtures_data.py on its own:
\* fetch_and_store_prediction_for_fixture is called for a stored fixture.
PredictionCall(r, fixture_id) ==
    LET dr == drun[r] IN
    /\ dr.pc \in {"idle", "odds_fetch"}
    /\ \E f \in db.fixtures : f.fixture_id = fixture_id
    /\ drun' = [drun EXCEPT ![r] =
                   [IdleDataRun EXCEPT !.pc = "prediction",
                                       !.fixture_id = fixture_id]]
    /\ UNCHANGED <<db, api, lrun, trun, frun, prun, srun, hist>>

(* ---------------------------------------------------------------------- *)
(* POST /players : fetch_and_store_players (ingest_players.py)             *)
(* The source names every player's id; one page per team.                  *)
(*   kind    : the handler the request runs                                *)
(*   seasons : the current seasons still to be processed                   *)
(*   error   : the exception that has ended the request                    *)
(* The other fields belong to POST /player_statistics.                     *)
(* ---------------------------------------------------------------------- *)
PlayerIds == {276}

PlayerItems == [id : PlayerIds, name : {"N. Player"}]

PlayerFeeds ==
    {[status_code |-> 500, response |-> <<>>],
     [status_code |-> 200, response |-> <<>>]}
    \cup {[status_code |-> 200, response |-> <<item>>] : item \in PlayerItems}

IdleSquadRun ==
    [pc |-> "idle", kind |-> "none", seasons |-> {}, league_id |-> 0,
     season_year |-> 0, teams |-> {}, team_id |-> 0, items |-> <<>>,
     player_id |-> 0, statistics_list |-> <<>>, existing_stat |-> {},
     error |-> "none"]

\* ingest_players.py lines 43-49: select(Team).filter(Team.league_id ==
\* league_id, Team.season_year == season_year); reading the class attribute
\* Team.league_id raises AttributeError.
TeamsOfSeason(d, league_id, season_year) ==
    IF {"league_id", "season_year"} \subseteq TeamColumns
    THEN [raised |-> FALSE,
          rows |-> {t \in d.teams :
                      t.league_id = league_id /\ t.season_year = season_year}]
    ELSE [raised |-> TRUE, rows |-> {}]

\* Lines 77-121: the players of one page.  The row is looked up by
\* (player_id, season_year) and inserted when absent; the primary key of
\* Player is player_id alone, name is NOT NULL and team_id references teams.
\* A commit that fails is not caught.
RECURSIVE AddPlayers(_, _, _, _)
AddPlayers(d, players_data, team_id, season_year) ==
    IF players_data = <<>> THEN [error |-> "none", db |-> d]
    ELSE
    LET player_info == Head(players_data)
        player == Player(player_info.id, player_info.name, team_id, season_year)
        result_player == {p \in d.players :
                            /\ p.player_id = player.player_id
                            /\ p.season_year = season_year}
        integrity_error ==
            \/ \E p \in d.players : p.player_id = player.player_id
            \/ player.name = None
            \/ team_id \notin TeamKeys(d)
    IN
    IF result_player # {}
    THEN AddPlayers(d, Tail(players_data), team_id, season_year)
    ELSE IF integrity_error THEN [error |-> "IntegrityError", db |-> d]
    ELSE AddPlayers([d EXCEPT !.players = @ \cup {player}], Tail(players_data),
                    team_id, season_year)

\* Lines 51-133: the teams of one season, each answered with the same page.
RECURSIVE StorePlayers(_, _, _, _)
StorePlayers(d, team_ids, resp, season_year) ==
    IF team_ids = {} \/ resp.status_code # 200 THEN [error |-> "none", db |-> d]
    ELSE
    LET team_id == CHOOSE t \in team_ids : TRUE
        added == AddPlayers(d, resp.response, team_id, season_year)
    IN
    IF added.error # "none" THEN added
    ELSE StorePlayers(added.db, team_ids \ {team_id}, resp, season_year)

\* Lines 23-32: SELECT the current seasons; none -> answer at once.
PlayersStart(r) ==
    LET seasons == {<<s.league_id, s.year>> : s \in {x \in db.seasons : x.current}} IN
    /\ srun[r].pc \in {"idle", "done", "failed"}
    /\ srun' = [srun EXCEPT ![r] =
                   [IdleSquadRun EXCEPT !.kind = "players", !.pc = "season",
                                        !.seasons = seasons]]
    /\ hist' = BeginRequest(hist, "players", db)
    /\ UNCHANGED <<db, api, lrun, trun, frun, drun, prun>>

\* Lines 38-133 for one season: the Team query of lines 43-49, then the
\* players of its teams.  Any exception reaches line 136: 500.
PlayersSeason(r, resp) ==
    LET sr == srun[r] IN
    /\ sr.kind = "players"
    /\ sr.pc = "season"
    /\ \E season \in sr.seasons :
          LET league_id == season[1]
              season_year == season[2]
              teams == TeamsOfSeason(db, league_id, season_year)
              stored == StorePlayers(db, {t.team_id : t \in teams.rows}, resp,
                                     season_year)
              error == IF teams.raised THEN "AttributeError" ELSE stored.error
          IN
          IF error # "none"
          THEN /\ srun' = [srun EXCEPT ![r] =
                              [sr EXCEPT !.pc = "failed", !.error = error]]
               /\ hist' = EndRequest(hist, FALSE)
               /\ UNCHANGED db
          ELSE /\ db' = stored.db
               /\ srun' = [srun EXCEPT ![r].seasons = @ \ {season}]
               /\ hist' = Inserted(hist, Cardinality(stored.db.players)
                                           - Cardinality(db.players))
    /\ UNCHANGED <<api, lrun, trun, frun, drun, prun>>

\* Line 135 (line 32 when there is no current season): the 200 answer.
PlayersFinish(r) ==
    /\ srun[r].kind = "players"
    /\ srun[r].pc = "season"
    /\ srun[r].seasons = {}
    /\ srun' = [srun EXCEPT ![r].pc = "done"]
    /\ hist' = EndRequest(hist, TRUE)
    /\ UNCHANGED <<db, api, lrun, trun, frun, drun, prun>>

(* ---------------------------------------------------------------------- *)
(* POST /player_statistics : fetch_and_store_player_statistics             *)
(* (ingest_player_statistics.py).  The credential is configured; every     *)
(* team is answered with one page.                                         *)
(*   teams           : the teams of the season still to be fetched         *)
(*   items           : the players of the page still to be processed       *)
(*   statistics_list : the statistics of the player still to be stored     *)
(*   existing_stat   : the ids of the rows the lookup has returned         *)
(* ---------------------------------------------------------------------- *)
StatsData(league_id, season, goals_total) ==
    [league_id |-> league_id, season |-> season, goals_total |-> goals_total]

PlayerData(player_id, statistics) ==
    [player_id |-> player_id, statistics |-> statistics]

PlayerStatisticsFeeds ==
    {[status_code |-> 500, json |-> TRUE, response |-> <<>>],
     [status_code |-> 200, json |-> FALSE, response |-> <<>>],
     [status_code |-> 200, json |-> TRUE,
      response |-> <<PlayerData(276, <<StatsData(39, 1, 3)>>)>>],
     [status_code |-> 200, json |-> TRUE,
      response |-> <<PlayerData(NoId, <<StatsData(39, 1, 1)>>),
                     PlayerData(276, <<StatsData(39, 1, 5)>>)>>],
     [status_code |-> 200, json |-> TRUE,
      response |-> <<PlayerData(999, <<StatsData(39, 1, 1)>>),
                     PlayerData(276, <<StatsData(140, 1, 2),
                                       StatsData(39, 2, 4)>>)>>]}

\* Lines 63 and 44: the next team of the season, else the next season.
NextTeam(sr) ==
    [sr EXCEPT !.pc = IF sr.teams = {} THEN "season" ELSE "fetch",
               !.items = <<>>, !.statistics_list = <<>>, !.existing_stat = {}]

\* Line 105: the next statistics of the player, else the next player.
NextStat(sr) ==
    [sr EXCEPT !.pc = IF sr.statistics_list = <<>> THEN "player" ELSE "lookup",
               !.existing_stat = {}]

\* Lines 24-36: SELECT the current seasons; none -> answer at once.
PlayerStatsStart(r) ==
    LET seasons == {<<s.league_id, s.year>> : s \in {x \in db.seasons : x.current}} IN
    /\ srun[r].pc \in {"idle", "done", "failed"}
    /\ srun' = [srun EXCEPT ![r] =
                   [IdleSquadRun EXCEPT !.kind = "player_statistics",
                                        !.pc = "season", !.seasons = seasons]]
    /\ hist' = BeginRequest(hist, "player_statistics", db)
    /\ UNCHANGED <<db, api, lrun, trun, frun, drun, prun>>

\* Lines 44-61: the teams of the next season through TeamLeague.
PlayerStatsSeason(r) ==
    LET sr == srun[r] IN
    /\ sr.kind = "player_statistics"
    /\ sr.pc = "season"
    /\ \E season \in sr.seasons :
          LET teams_league == {tl \in db.team_leagues :
                                 /\ tl.league_id = season[1]
                                 /\ tl.season_year = season[2]}
          IN
          srun' = [srun EXCEPT ![r] =
                      NextTeam([sr EXCEPT !.seasons = @ \ {season},
                                          !.league_id = season[1],
                                          !.season_year = season[2],
                                          !.teams = {tl.team_id : tl \in teams_league}])]
    /\ UNCHANGED <<db, api, lrun, trun, frun, drun, prun, hist>>

\* Lines 63-88: the page of one team; a status other than 200 or a body
\* that is not JSON ends the team.
PlayerStatsFetch(r, resp) ==
    LET sr == srun[r] IN
    /\ sr.kind = "player_statistics"
    /\ sr.pc = "fetch"
    /\ \E team_id \in sr.teams :
          LET rest == [sr EXCEPT !.teams = @ \ {team_id}, !.team_id = team_id] IN
          srun' = [srun EXCEPT ![r] =
                      IF resp.status_code # 200 \/ ~resp.json
                      THEN NextTeam(rest)
                      ELSE [rest EXCEPT !.pc = "player", !.items = resp.response]]
    /\ UNCHANGED <<db, api, lrun, trun, frun, drun, prun, hist>>

\* Lines 90-98 without lines 99-103: the next player of the page is taken
\* whether or not the store holds a Player row for it.
PlayerStatsPlayer_NoPlayerCheck(r) ==
    LET sr == srun[r] IN
    /\ sr.kind = "player_statistics"
    /\ sr.pc = "player"
    /\ srun' = [srun EXCEPT ![r] =
                   IF sr.items = <<>> THEN NextTeam(sr)
                   ELSE
                   LET player_data == Head(sr.items)
                       player_id == player_data.player_id
                       rest == [sr EXCEPT !.items = Tail(@)]
                   IN
                   IF player_id = NoId
                   THEN rest
                   ELSE NextStat([rest EXCEPT !.player_id = player_id,
                                              !.statistics_list = player_data.statistics])]
    /\ UNCHANGED <<db, api, lrun, trun, frun, drun, prun, hist>>

\* Lines 90-103: the next player of the page; one without an id or without
\* a Player row is skipped.
PlayerStatsPlayer(r) ==
    LET sr == srun[r] IN
    /\ sr.kind = "player_statistics"
    /\ sr.pc = "player"
    /\ srun' = [srun EXCEPT ![r] =
                   IF sr.items = <<>> THEN NextTeam(sr)
                   ELSE
                   LET player_data == Head(sr.items)
                       player_id == player_data.player_id
                       rest == [sr EXCEPT !.items = Tail(@)]
                   IN
                   IF \/ player_id = NoId
                      \/ ~\E p \in db.players : p.player_id = player_id
                   THEN rest
                   ELSE NextStat([rest EXCEPT !.player_id = player_id,
                                              !.statistics_list = player_data.statistics])]
    /\ UNCHANGED <<db, api, lrun, trun, frun, drun, prun, hist>>

\* Lines 123-130: the rows of (player, team, league, season).
ExistingStats(d, sr) ==
    {ps \in d.player_statistics :
        /\ ps.player_id = sr.player_id
        /\ ps.team_id = sr.team_id
        /\ ps.league_id = sr.league_id
        /\ ps.season_year = sr.season_year}

\* Lines 105-131: statistics of another league or season are skipped; the
\* lookup scalar_one_or_none raises MultipleResultsFound on two rows, which
\* reaches line 250: 500.
PlayerStatsLookup(r) ==
    LET sr == srun[r]
        stats_data == Head(sr.statistics_list)
        found == ExistingStats(db, sr)
    IN
    /\ sr.kind = "player_statistics"
    /\ sr.pc = "lookup"
    /\ IF stats_data.league_id # sr.league_id \/ stats_data.season # sr.season_year
       THEN /\ srun' = [srun EXCEPT ![r] =
                           NextStat([sr EXCEPT !.statistics_list = Tail(@)])]
            /\ UNCHANGED hist
       ELSE IF Cardinality(found) > 1
       THEN /\ srun' = [srun EXCEPT ![r] =
                           [sr EXCEPT !.pc = "failed",
                                      !.error = "MultipleResultsFound"]]
            /\ hist' = EndRequest(hist, FALSE)
       ELSE /\ srun' = [srun EXCEPT ![r] =
                           [sr EXCEPT !.pc = "write",
                                      !.existing_stat = {ps.id : ps \in found}]]
            /\ UNCHANGED hist
    /\ UNCHANGED <<db, api, lrun, trun, frun, drun, prun>>

\* Lines 133-236: INSERT when the lookup found nothing, else UPDATE the row
\* it found; the commit follows at once.  Player, team and league rows are
\* never deleted, so the foreign keys of the new row hold.
PlayerStatsWrite(r) ==
    LET sr == srun[r]
        stats_data == Head(sr.statistics_list)
        id == db.ids.player_statistics + 1
        player_stat == PlayerStatistics(id, sr.player_id, sr.team_id, sr.league_id,
                                        sr.season_year, stats_data.goals_total)
    IN
    /\ sr.kind = "player_statistics"
    /\ sr.pc = "write"
    /\ IF sr.existing_stat = {}
       THEN /\ db' = [db EXCEPT !.player_statistics = @ \cup {player_stat},
                                !.ids.player_statistics = id]
            /\ hist' = Inserted(hist, 1)
       ELSE /\ db' = [db EXCEPT !.player_statistics =
                        {IF ps.id \in sr.existing_stat
                         THEN [ps EXCEPT !.goals_total = stats_data.goals_total]
                         ELSE ps : ps \in @}]
            /\ UNCHANGED hist
    /\ srun' = [srun EXCEPT ![r] = NextStat([sr EXCEPT !.statistics_list = Tail(@)])]
    /\ UNCHANGED <<api, lrun, trun, frun, drun, prun>>

\* Line 248 (line 32 when there is no current season): the 200 answer.
PlayerStatsFinish(r) ==
    /\ srun[r].kind = "player_statistics"
    /\ srun[r].pc = "season"
    /\ srun[r].seasons = {}
    /\ srun' = [srun EXCEPT ![r].pc = "done"]
    /\ hist' = EndRequest(hist, TRUE)
    /\ UNCHANGED <<db, api, lrun, trun, frun, drun, prun>>

(* ---------------------------------------------------------------------- *)
(* GET /standings/{league_id}?season_year= : get_league_standings          *)
(* (retrieval/standings.py), a function of the store.  NULL is NoGoals in  *)
(* the goal columns and in the sums over them.                             *)
(* ---------------------------------------------------------------------- *)
\* Line 39: Fixture.round.ilike('League Stage%').
IsLeagueStage(round) == round \in {"League Stage - 1", "League Stage - 2"}

\* Lines 29-39 and 134: the fixtures the statistics are computed over.
StandingFixtures(d, league_id, season_year) ==
    {f \in d.fixtures :
        /\ f.league_id = league_id
        /\ f.season_year = season_year
        /\ f.status_short = "FT"
        /\ league_id \in {2, 3} => IsLeagueStage(f.round)}

\* SQL comparisons: a comparison with NULL is not true.
SqlGreater(a, b) == a # NoGoals /\ b # NoGoals /\ a > b

SqlEqual(a, b) == a # NoGoals /\ b # NoGoals /\ a = b

RECURSIVE FnSum(_)
FnSum(fn) ==
    IF DOMAIN fn = {} THEN 0
    ELSE LET x == CHOOSE y \in DOMAIN fn : TRUE
         IN fn[x] + FnSum([y \in DOMAIN fn \ {x} |-> fn[y]])

\* SUM() skips NULL and is NULL when nothing is left.
SqlSum(fn) ==
    LET known == {x \in DOMAIN fn : fn[x] # NoGoals} IN
    IF known = {} THEN NoGoals ELSE FnSum([x \in known |-> fn[x]])

\* `x or 0` of lines 179-186.
OrZero(x) == IF x = NoGoals THEN 0 ELSE x

\* Lines 42-141: the row of the statistics subquery for one team, with the
\* points and the goal difference of lines 140-141.
TeamStatsRow(team_id, fixtures) ==
    LET joined == {f \in fixtures :
                      f.home_team_id = team_id \/ f.away_team_id = team_id}
        wins == FnSum([f \in joined |->
                    IF f.home_team_id = team_id
                          /\ SqlGreater(f.goals_home, f.goals_away) THEN 1
                    ELSE IF f.away_team_id = team_id
                          /\ SqlGreater(f.goals_away, f.goals_home) THEN 1
                    ELSE 0])
        draws == FnSum([f \in joined |->
                    IF SqlEqual(f.goals_home, f.goals_away) THEN 1 ELSE 0])
        losses == FnSum([f \in joined |->
                    IF f.home_team_id = team_id
                          /\ SqlGreater(f.goals_away, f.goals_home) THEN 1
                    ELSE IF f.away_team_id = team_id
                          /\ SqlGreater(f.goals_home, f.goals_away) THEN 1
                    ELSE 0])
        goals_for == SqlSum([f \in joined |->
                    IF f.home_team_id = team_id THEN f.goals_home
                    ELSE f.goals_away])
        goals_against == SqlSum([f \in joined |->
                    IF f.home_team_id = team_id THEN f.goals_away
                    ELSE f.goals_home])
        gd_null == goals_for = NoGoals \/ goals_against = NoGoals
    IN [team_id |-> team_id, matches_played |-> Cardinality(joined),
        wins |-> wins, draws |-> draws, losses |-> losses,
        goals_for |-> goals_for, goals_against |-> goals_against,
        points |-> wins * 3 + draws,
        gd_null |-> gd_null,
        goal_difference |-> IF gd_null THEN 0 ELSE goals_for - goals_against]

\* Lines 144-161: the teams that have a row in the subquery and a
\* TeamLeague row of the league and season.
StandingRows(d, league_id, season_year) ==
    LET fixtures == StandingFixtures(d, league_id, season_year)
        teams == {t.team_id : t \in d.teams} \cap
                 ({f.home_team_id : f \in fixtures} \cup
                  {f.away_team_id : f \in fixtures}) \cap
                 {a.team_id : a \in {x \in d.team_leagues :
                                       /\ x.league_id = league_id
                                       /\ x.season_year = season_year}}
    IN {TeamStatsRow(team_id, fixtures) : team_id \in teams}

\* Lines 162-166: ORDER BY points DESC, goal_difference DESC, goals_for
\* DESC; in a descending order NULL comes first.
DescBefore(a_null, a, b_null, b) ==
    (a_null /\ ~b_null) \/ (~a_null /\ ~b_null /\ a > b)

DescSame(a_null, a, b_null, b) ==
    (a_null /\ b_null) \/ (~a_null /\ ~b_null /\ a = b)

OrderedBefore(a, b) ==
    \/ a.points > b.points
    \/ /\ a.points = b.points
       /\ DescBefore(a.gd_null, a.goal_difference, b.gd_null, b.goal_difference)
    \/ /\ a.points = b.points
       /\ DescSame(a.gd_null, a.goal_difference, b.gd_null, b.goal_difference)
       /\ DescBefore(a.goals_for = NoGoals, a.goals_for,
                     b.goals_for = NoGoals, b.goals_for)

\* The attributes TeamBase.model_validate reads off the Team object
\* (schemas.py); all of them are required.
TeamBaseFields ==
    {"team_id", "name", "code", "country", "founded", "national", "logo",
     "league_id", "season_year"}

\* Lines 175-208: the ranked list of TeamStanding objects.
RankedList(ordered) ==
    [i \in DOMAIN ordered |->
        [rank |-> i, team_id |-> ordered[i].team_id,
         matches_played |-> ordered[i].matches_played,
         points |-> ordered[i].points, wins |-> ordered[i].wins,
         draws |-> ordered[i].draws, losses |-> ordered[i].losses,
         goals_for |-> OrZero(ordered[i].goals_for),
         goals_against |-> OrZero(ordered[i].goals_against),
         goal_difference |-> ordered[i].goal_difference]]

\* The answers the request may give: rows that the ORDER BY leaves tied
\* come in any order.  A Team object that lacks an attribute of TeamBase
\* fails the validation of line 189, and lines 192 and 215 answer 500.
get_league_standings(d, league_id, season_year) ==
    LET rows == StandingRows(d, league_id, season_year)
        orders == {q \in Orderings(rows) :
                     \A i, j \in DOMAIN q : i < j => ~OrderedBefore(q[j], q[i])}
    IN
    IF rows # {} /\ ~(TeamBaseFields \subseteq TeamColumns)
    THEN {[status_code |-> 500, body |-> <<>>]}
    ELSE {[status_code |-> 200, body |-> RankedList(q)] : q \in orders}

\* The fixtures a report has read: hist.report names the report, its
\* parameters and the ids of the fixtures its query selected.
Report(kind, league_id, season_year, team_id, other_team_id, fixtures) ==
    [kind |-> kind, league_id |-> league_id, season_year |-> season_year,
     team_id |-> team_id, other_team_id |-> other_team_id,
     fixtures |-> {f.fixture_id : f \in fixtures}]

StandingsRequest(league_id, season_year) ==
    /\ \E answer \in get_league_standings(db, league_id, season_year) :
          hist' = [hist EXCEPT
                      !.answer =
                         [kind |-> "standings", league_id |-> league_id,
                          season_year |-> season_year,
                          status_code |-> answer.status_code,
                          body |-> answer.body],
                      !.report =
                         Report("standings", league_id, season_year, NoId, NoId,
                                StandingFixtures(db, league_id, season_year))]
    /\ UNCHANGED <<db, api, lrun, trun, frun, drun, prun, srun>>

(* ---------------------------------------------------------------------- *)
(* The fixture queries of the other reports, functions of the store.  The  *)
(* LIMIT of a query (5, 10 or 15 fixtures, latest first) is above the      *)
(* number of fixtures a team has in the stores modelled; the body of the   *)
(* answer is not modelled.                                                 *)
(* ---------------------------------------------------------------------- *)
\* head_to_head.py lines 28-37 and fixtures.py lines 171-179.
HeadToHeadFixtures(d, team1_id, team2_id) ==
    {f \in d.fixtures :
        /\ \/ f.home_team_id = team1_id /\ f.away_team_id = team2_id
           \/ f.home_team_id = team2_id /\ f.away_team_id = team1_id
        /\ f.status_short = "FT"}

\* fixtures.py lines 304-310 (get_team_recent_form).
RecentFormFixtures(d, team_id) ==
    {f \in d.fixtures :
        /\ f.home_team_id = team_id \/ f.away_team_id = team_id
        /\ f.status_short = "FT"}

\* teams.py lines 80-84 and fixtures.py lines 365-372 (get_team_statistics).
TeamStatisticsFixtures(d, team_id, season_year) ==
    {f \in d.fixtures :
        /\ f.home_team_id = team_id \/ f.away_team_id = team_id
        /\ f.season_year = season_year
        /\ f.status_short = "FT"}

\* GET /head_to_head/?team1_id=&team2_id=
HeadToHeadRequest(team1_id, team2_id) ==
    /\ hist' = [hist EXCEPT !.report =
                    Report("head_to_head", NoId, 0, team1_id, team2_id,
                           HeadToHeadFixtures(db, team1_id, team2_id))]
    /\ UNCHANGED <<db, api, lrun, trun, frun, drun, prun, srun>>

\* get_team_recent_form, called by GET /fixtures/{fixture_id}/detailed for
\* the home and the away team of the fixture (fixtures.py lines 191-192).
RecentFormRequest(fixture_id) ==
    /\ \E fixture \in {f \in db.fixtures : f.fixture_id = fixture_id} :
       \E team_id \in {fixture.home_team_id, fixture.away_team_id} :
          hist' = [hist EXCEPT !.report =
                      Report("recent_form", NoId, 0, team_id, NoId,
                             RecentFormFixtures(db, team_id))]
    /\ UNCHANGED <<db, api, lrun, trun, frun, drun, prun, srun>>

(* ---------------------------------------------------------------------- *)
(* The by-id read endpoints.  Each body is one `try` whose only handler is  *)
(* `except Exception as e: raise HTTPException(status_code=500, ...)`.      *)
(* ---------------------------------------------------------------------- *)
\* What the last line of a handler makes of an exception raised in its try:
\* HTTPException derives from Exception, so the handler catches the 404 a
\* body raises as it catches a validation error, and raises a 500.
ExceptException(raised) == [status_code |-> 500, detail |-> raised.detail]

HTTPException(status_code, detail) == [status_code |-> status_code, detail |-> detail]

\* schemas.TeamBase.model_validate(team): every field of TeamBase is
\* required.
TeamBaseInvalid == ~(TeamBaseFields \subseteq TeamColumns)

ValidationError == [status_code |-> 0, detail |-> "validation error"]

Ok == [status_code |-> 200, detail |-> None]

\* hist.lookup: the endpoint of the last by-id request, the id asked for,
\* whether a row matched it, and the answer.
Lookup(endpoint, id, found, answer) ==
    [endpoint |-> endpoint, id |-> id, found |-> found,
     status_code |-> answer.status_code, detail |-> answer.detail]

NoLookup == Lookup("none", NoId, FALSE, [status_code |-> 0, detail |-> None])

\* teams.py lines 42-59.
get_team_by_id(d, team_id) ==
    IF ~\E t \in d.teams : t.team_id = team_id
    THEN ExceptException(HTTPException(404, "Team not found"))
    ELSE IF TeamBaseInvalid THEN ExceptException(ValidationError)
    ELSE Ok

\* teams.py lines 61-160: with or without fixtures the answer carries
\* TeamBase.model_validate(team) (lines 88 and 155).
get_team_statistics(d, team_id, season_year) ==
    IF ~\E t \in d.teams : t.team_id = team_id
    THEN ExceptException(HTTPException(404, "Team not found"))
    ELSE IF TeamBaseInvalid THEN ExceptException(ValidationError)
    ELSE Ok

\* players.py lines 51-70: PlayerBase carries team: Optional[TeamBase], and a
\* Player row always has its team (team_id is NOT NULL and a foreign key).
get_player_by_id(d, player_id) ==
    IF ~\E p \in d.players : p.player_id = player_id
    THEN ExceptException(HTTPException(404, "Player not found"))
    ELSE IF TeamBaseInvalid THEN ExceptException(ValidationError)
    ELSE Ok

\* predictions.py lines 48-67: PredictionSchema holds columns of the row only.
get_prediction_by_id(d, prediction_id) ==
    IF ~\E p \in d.predictions : p.id = prediction_id
    THEN ExceptException(HTTPException(404, "Prediction not found"))
    ELSE Ok

\* schemas.TeamRecentForm: the required fields, and the keywords
\* calculate_h2h_stats passes to it (fixtures.py lines 280-288).
TeamRecentFormRequired ==
    {"fixture_id", "date", "opponent", "opponent_team_id", "home_or_away",
     "goals_for", "goals_against", "outcome"}

H2HRecentFormKeywords ==
    {"fixture_id", "date", "opponent", "home_or_away", "goals_for",
     "goals_against", "outcome"}

\* fixtures.py lines 247-289: the loop of calculate_h2h_stats from the
\* fixture at the head of `fixtures` on; acc holds the counters.  A fixture
\* without a score is skipped; for the others the TeamRecentForm object is
\* built, which raises when a required field is not passed.
RECURSIVE h2h_loop(_, _, _)
h2h_loop(fixtures, home_team_id, acc) ==
    IF fixtures = <<>> \/ acc.raised THEN acc
    ELSE
    LET fixture == Head(fixtures) IN
    IF fixture.goals_home = NoGoals \/ fixture.goals_away = NoGoals
    THEN h2h_loop(Tail(fixtures), home_team_id, acc)
    ELSE
    LET at_home == fixture.home_team_id = home_team_id
        gf == IF at_home THEN OrZero(fixture.goals_home) ELSE OrZero(fixture.goals_away)
        ga == IF at_home THEN OrZero(fixture.goals_away) ELSE OrZero(fixture.goals_home)
        outcome == IF gf > ga THEN "W" ELSE IF gf < ga THEN "L" ELSE "D"
        home_wins == IF (gf > ga /\ at_home) \/ (gf < ga /\ ~at_home) THEN 1 ELSE 0
        away_wins == IF (gf > ga /\ ~at_home) \/ (gf < ga /\ at_home) THEN 1 ELSE 0
        recent_match == [fixture_id |-> fixture.fixture_id,
                         home_or_away |-> IF at_home THEN "Home" ELSE "Away",
                         goals_for |-> gf, goals_against |-> ga, outcome |-> outcome]
    IN
    IF ~(TeamRecentFormRequired \subseteq H2HRecentFormKeywords)
    THEN [acc EXCEPT !.raised = TRUE]
    ELSE h2h_loop(Tail(fixtures), home_team_id,
                  [acc EXCEPT !.home_team_wins = @ + home_wins,
                              !.away_team_wins = @ + away_wins,
                              !.draws = @ + (IF gf = ga THEN 1 ELSE 0),
                              !.recent_matches = Append(@, recent_match)])

\* fixtures.py lines 241-298.
calculate_h2h_stats(fixtures, home_team_id, away_team_id) ==
    h2h_loop(fixtures, home_team_id,
             [raised |-> FALSE, total_matches |-> Len(fixtures),
              home_team_wins |-> 0, away_team_wins |-> 0, draws |-> 0,
              recent_matches |-> <<>>])

\* hist.h2h: the arguments and the result of the last call of
\* calculate_h2h_stats.
H2HCall(called, fixtures, home_team_id, away_team_id, result) ==
    [called |-> called, fixtures |-> fixtures, home_team_id |-> home_team_id,
     away_team_id |-> away_team_id, result |-> result]

NoH2HCall == H2HCall(FALSE, <<>>, NoId, NoId, calculate_h2h_stats(<<>>, NoId, NoId))

\* fixtures.py lines 314-324 (get_team_recent_form): goals_for >
\* goals_against raises TypeError when a goal column is None.
RecentFormRaises(d, team_id) ==
    \E f \in RecentFormFixtures(d, team_id) :
        f.goals_home = NoGoals \/ f.goals_away = NoGoals

\* fixtures.py lines 120-236 once the fixture is found and the head-to-head
\* statistics are in h2h_stats: the recent form of both teams, then the
\* validation of the fixture against FixtureBaseDetailed, whose home_team and
\* away_team are TeamBase objects.
DetailedAnswer(d, fixture, h2h_stats) ==
    IF h2h_stats.raised THEN ExceptException(ValidationError)
    ELSE IF \/ RecentFormRaises(d, fixture.home_team_id)
            \/ RecentFormRaises(d, fixture.away_team_id)
    THEN ExceptException([status_code |-> 0, detail |-> "TypeError"])
    ELSE IF TeamBaseInvalid THEN ExceptException(ValidationError)
    ELSE Ok

\* GET /teams/{team_id}
GetTeamById(team_id) ==
    /\ hist' = [hist EXCEPT !.lookup =
                    Lookup("team", team_id, \E t \in db.teams : t.team_id = team_id,
                           get_team_by_id(db, team_id))]
    /\ UNCHANGED <<db, api, lrun, trun, frun, drun, prun, srun>>

\* GET /players/{player_id}
GetPlayerById(player_id) ==
    /\ hist' = [hist EXCEPT !.lookup =
                    Lookup("player", player_id,
                           \E p \in db.players : p.player_id = player_id,
                           get_player_by_id(db, player_id))]
    /\ UNCHANGED <<db, api, lrun, trun, frun, drun, prun, srun>>

\* GET /predictions/{prediction_id}
GetPredictionById(prediction_id) ==
    /\ hist' = [hist EXCEPT !.lookup =
                    Lookup("prediction", prediction_id,
                           \E p \in db.predictions : p.id = prediction_id,
                           get_prediction_by_id(db, prediction_id))]
    /\ UNCHANGED <<db, api, lrun, trun, frun, drun, prun, srun>>

\* GET /fixtures/{fixture_id}/detailed (fixtures.py lines 120-236): an
\* unknown fixture raises the 404 of line 156; for a stored one the
\* head-to-head fixtures of its two teams go to calculate_h2h_stats, latest
\* first (the model keeps no dates: any order).
GetDetailedFixture(fixture_id) ==
    LET found == {f \in db.fixtures : f.fixture_id = fixture_id} IN
    /\ IF found = {}
       THEN hist' = [hist EXCEPT !.lookup =
                        Lookup("detailed_fixture", fixture_id, FALSE,
                               ExceptException(HTTPException(404, "Fixture not found")))]
       ELSE \E fixture \in found :
            \E h2h_fixtures \in Orderings(HeadToHeadFixtures(db, fixture.home_team_id,
                                                             fixture.away_team_id)) :
               LET h2h_stats == calculate_h2h_stats(h2h_fixtures, fixture.home_team_id,
                                                    fixture.away_team_id)
               IN hist' = [hist EXCEPT
                             !.h2h = H2HCall(TRUE, h2h_fixtures, fixture.home_team_id,
                                             fixture.away_team_id, h2h_stats),
                             !.lookup = Lookup("detailed_fixture", fixture_id, TRUE,
                                               DetailedAnswer(db, fixture, h2h_stats))]
    /\ UNCHANGED <<db, api, lrun, trun, frun, drun, prun, srun>>

\* GET /teams/{team_id}/statistics?season_year= (teams.py lines 61-160).
TeamStatisticsRequest(team_id, season_year) ==
    /\ hist' = [hist EXCEPT
                   !.report =
                      IF \E t \in db.teams : t.team_id = team_id
                      THEN Report("team_statistics", NoId, season_year, team_id, NoId,
                                  TeamStatisticsFixtures(db, team_id, season_year))
                      ELSE @,
                   !.lookup =
                      Lookup("team_statistics", team_id,
                             \E t \in db.teams : t.team_id = team_id,
                             get_team_statistics(db, team_id, season_year))]
    /\ UNCHANGED <<db, api, lrun, trun, frun, drun, prun, srun>>

(* ---------------------------------------------------------------------- *)
(* Specification: overlapping league ingestion requests                    *)
(* ---------------------------------------------------------------------- *)
\* The fixtures the modelled stores hold.
FixtureIds == {1001, 1002}

NoPrediction == [winner |-> NoId, advice |-> None]

NoSighting == [league_id |-> 0, name |-> None]

InitHist ==
    [lastUpserted |-> [l \in ServedLeagues |-> 0], kind |-> "none",
     inserted |-> 0, lastKind |-> "none", prevKind |-> "none", snap |-> EmptyDb,
     handled |-> {},
     tree |-> [kind |-> "none", fixture_id |-> 0, before |-> {},
               response |-> <<>>, outcome |-> "none"],
     answer |-> [kind |-> "none", league_id |-> 0, season_year |-> 0,
                 status_code |-> 0, body |-> <<>>],
     entry |-> [endpoint |-> "none", status_code |-> 0, detail |-> None,
                fetched |-> FALSE],
     interrupted |-> FALSE, restored |-> {},
     report |-> [kind |-> "none", league_id |-> 0, season_year |-> 0,
                 team_id |-> 0, other_team_id |-> 0, fixtures |-> {}],
     fetched_prediction |-> [f \in FixtureIds |-> NoPrediction],
     lookup |-> NoLookup, h2h |-> NoH2HCall, sighted |-> NoSighting]

NoApi == [kind |-> "none", content |-> None]

\* No request has been served yet.
NoRequests ==
    /\ api = NoApi
    /\ lrun = [r \in RunIds |-> IdleLeagueRun]
    /\ trun = [r \in RunIds |-> IdleTeamRun]
    /\ frun = [r \in RunIds |-> IdleFixtureRun]
    /\ drun = [r \in RunIds |-> IdleDataRun]
    /\ prun = [r \in RunIds |-> IdlePredictionRun]
    /\ srun = [r \in RunIds |-> IdleSquadRun]
    /\ hist = InitHist

InitLeagues ==
    /\ db = EmptyDb
    /\ NoRequests

LeagueStep(r) ==
    \/ LeagueStart(r) /\ UNCHANGED api
    \/ \E resp \in LeagueFeeds : LeagueFetch(r, resp)
    \/ LeagueInsert(r)
    \/ SeasonClear(r)
    \/ SeasonLookup(r)
    \/ SeasonWrite(r)
    \/ LeagueFinish(r)

NextLeagues == \E r \in RunIds : LeagueStep(r)

SpecLeagues == InitLeagues /\ [][NextLeagues]_vars

\* One request at a time: league ingestion requests that never overlap.
NextLeaguesSeq == LeagueStep("A")

SpecLeaguesSeq == InitLeagues /\ [][NextLeaguesSeq]_vars

(* ---------------------------------------------------------------------- *)
(* Specification: the requests post.py sends, one at a time, in any order  *)
(* and any number of times.  The source keeps answering a handler with the *)
(* same content as long as no other handler runs in between.               *)
(* ---------------------------------------------------------------------- *)
PipelineIdle ==
    /\ lrun["A"].pc \in {"idle", "done"}
    /\ trun["A"].pc \in {"idle", "done", "failed"}
    /\ frun["A"].pc \in {"idle", "done", "failed"}

\* What the source answers in the pipeline: per handler a failure, a
\* complete answer and answers with the records the handlers skip.
SeasonEntry(year, current, start) ==
    [year |-> year, current |-> current, start |-> start]

PipelineLeagueFeeds ==
    {[status_code |-> 500, response |-> <<>>],
     [status_code |-> 200,
      response |-> <<[name |-> "Premier League",
                      seasons |-> <<SeasonEntry(1, FALSE, ValidDate),
                                    SeasonEntry(2, TRUE, ValidDate)>>]>>],
     [status_code |-> 200,
      response |-> <<[name |-> "Premier League",
                      seasons |-> <<SeasonEntry(1, TRUE, ValidDate),
                                    SeasonEntry(2, TRUE, ValidDate)>>]>>],
     [status_code |-> 200,
      response |-> <<[name |-> "Premier League",
                      seasons |-> <<SeasonEntry(1, TRUE, ValidDate),
                                    SeasonEntry(2, TRUE, "16/08/2024")>>]>>],
     [status_code |-> 200,
      response |-> <<[name |-> None,
                      seasons |-> <<SeasonEntry(1, TRUE, ValidDate)>>]>>]}

PipelineTeamFeeds ==
    {[status_code |-> 500, response |-> <<>>],
     [status_code |-> 200,
      response |-> <<[id |-> 33, name |-> "FC"], [id |-> 34, name |-> "FC"]>>],
     [status_code |-> 200,
      response |-> <<[id |-> 34, name |-> "FC"], [id |-> NoId, name |-> "FC"]>>],
     [status_code |-> 200,
      response |-> <<[id |-> 33, name |-> "FC"], [id |-> 33, name |-> "FC"]>>]}

PipelineFixtureFeeds ==
    {[status_code |-> 500, response |-> <<>>],
     [status_code |-> 200,
      response |-> <<FixtureItem(1001, 33, 34, 7, "UTC", "FT", 2, 0),
                     FixtureItem(1002, 34, 33, NoId, "UTC", "NS", NoGoals, NoGoals)>>],
     [status_code |-> 200,
      response |-> <<FixtureItem(1003, 35, 34, NoId, "UTC", "NS", NoGoals, NoGoals),
                     FixtureItem(NoId, 33, 34, 7, "UTC", "FT", 2, 0)>>]}

Serve(kind, feeds) ==
    \E content \in feeds :
        api' = IF api.kind = kind THEN api
               ELSE [kind |-> kind, content |-> content]

NextPipeline ==
    \/ PipelineIdle /\ LeagueStart("A") /\ Serve("leagues", PipelineLeagueFeeds)
    \/ PipelineIdle /\ TeamStart("A") /\ Serve("teams", PipelineTeamFeeds)
    \/ PipelineIdle /\ FixtureStart("A") /\ Serve("fixtures", PipelineFixtureFeeds)
    \/ LeagueFetch("A", api.content)
    \/ LeagueInsert("A")
    \/ SeasonClear("A")
    \/ SeasonLookup("A")
    \/ SeasonWrite("A")
    \/ LeagueFinish("A")
    \/ TeamFetch("A", api.content)
    \/ TeamItem("A")
    \/ TeamCommitTeams("A")
    \/ TeamCommitAssocs("A")
    \/ TeamFinish("A")
    \/ FixtureFetch("A", api.content)
    \/ FixtureRecord("A")
    \/ FixtureFinish("A")

SpecPipeline == InitLeagues /\ [][NextPipeline]_vars

(* ---------------------------------------------------------------------- *)
(* Specification: overlapping team ingestion requests, on a store that     *)
(* league ingestion has filled with one league and its current season.     *)
(* ---------------------------------------------------------------------- *)
SeededDb(league_set, team_set) ==
    [EmptyDb EXCEPT
        !.leagues = {League(l, "league") : l \in league_set},
        !.seasons = {Season(l, 1, <<2024, 8, 16>>, TRUE) : l \in league_set},
        !.teams = {Team(t, "FC") : t \in team_set},
        !.team_leagues = {TeamLeague(t, l, 1) : t \in team_set, l \in league_set}]

InitTeams ==
    /\ db = SeededDb({39}, {})
    /\ NoRequests

NextTeams ==
    \E r \in RunIds :
        \/ TeamStart(r) /\ UNCHANGED api
        \/ \E resp \in TeamFeeds : TeamFetch(r, resp)
        \/ TeamItem(r)
        \/ TeamCommitTeams(r)
        \/ TeamCommitAssocs(r)
        \/ TeamFinish(r)

SpecTeams == InitTeams /\ [][NextTeams]_vars

(* ---------------------------------------------------------------------- *)
(* Specification: fixture ingestion requests, one at a time, on a store    *)
(* that holds two leagues with their current seasons and some teams.       *)
(* ---------------------------------------------------------------------- *)
InitFixtures ==
    /\ db \in {SeededDb({39, 2}, team_set) : team_set \in {{33, 34}, {34}}}
    /\ NoRequests

NextFixtures ==
    \/ FixtureStart("A") /\ UNCHANGED api
    \/ \E resp \in FixtureFeeds : FixtureFetch("A", resp)
    \/ FixtureRecord("A")
    \/ FixtureFinish("A")

SpecFixtures == InitFixtures /\ [][NextFixtures]_vars

(* ---------------------------------------------------------------------- *)
(* Specification: fetch_and_store_odds_for_fixture called again and again  *)
(* for the fixtures of a store that holds a played fixture.                *)
(* ---------------------------------------------------------------------- *)
PlayedFixture ==
    Fixture(1001, 39, 1, "Regular Season - 1", 33, 34, NoId, "UTC", "FT", TRUE, 2, 0)

ComingFixture ==
    Fixture(1002, 39, 1, "Regular Season - 2", 34, 33, NoId, "UTC", "NS", FALSE,
            NoGoals, NoGoals)

InitOdds ==
    /\ db = [SeededDb({39}, {33, 34}) EXCEPT !.fixtures = {PlayedFixture}]
    /\ NoRequests

NextOdds ==
    \/ \E f \in db.fixtures : OddsCall("A", f.fixture_id)
    \/ \E resp \in OddsFeeds : OddsFetch("A", resp)
    \/ OddsEntry("A")
    \/ OddsBookmaker("A")
    \/ OddsBet("A")
    \/ OddsCommit("A")

SpecOdds == InitOdds /\ [][NextOdds]_vars

(* ---------------------------------------------------------------------- *)
(* Specification: fixtures-data requests, one at a time, on a store that   *)
(* holds a played fixture or a coming one.                                 *)
(* ---------------------------------------------------------------------- *)
InitFixturesData ==
    /\ db \in {[SeededDb({39}, {33, 34}) EXCEPT !.fixtures = {f}] :
                  f \in {PlayedFixture, ComingFixture}}
    /\ NoRequests

NextFixturesData ==
    \/ DataStart("A")
    \/ \E resp \in PredictionFeeds : DataPrediction("A", resp)
    \/ \E resp \in OddsFeeds : OddsFetch("A", resp)
    \/ OddsEntry("A")
    \/ OddsBookmaker("A")
    \/ OddsBet("A")
    \/ OddsCommit("A")
    \/ DataAfterOdds("A")
    \/ \E resp \in StatisticsFeeds : StatsFetch("A", resp)
    \/ StatsStore("A")
    \/ \E resp \in EventFeeds : EventsFetch("A", resp)
    \/ EventsStore("A")
    \/ DataFinish("A")

SpecFixturesData == InitFixturesData /\ [][NextFixturesData]_vars

(* ---------------------------------------------------------------------- *)
(* Specification: report requests on stores that hold three linked teams   *)
(* and any of the fixtures of a pool.                                      *)
(* ---------------------------------------------------------------------- *)
Result(fixture_id, league_id, round, home, away, short, gh, ga) ==
    Fixture(fixture_id, league_id, 1, round, home, away, NoId, "UTC", short,
            short \in final_statuses, gh, ga)

\* A 2-0 B, B 1-1 C, A 3-1 C with A = 33, B = 34, C = 35.
ScenarioFixtures ==
    {Result(1101, 39, "Regular Season - 1", 33, 34, "FT", 2, 0),
     Result(1102, 39, "Regular Season - 1", 34, 35, "FT", 1, 1),
     Result(1103, 39, "Regular Season - 2", 33, 35, "FT", 3, 1)}

FixturePool ==
    ScenarioFixtures \cup
    {Result(1104, 39, "Regular Season - 2", 34, 35, "NS", NoGoals, NoGoals),
     Result(1105, 39, "Regular Season - 3", 35, 33, "AET", 1, 0),
     Result(1106, 39, "Regular Season - 3", 35, 34, "FT", NoGoals, NoGoals),
     Result(1107, 2, "League Stage - 1", 33, 34, "FT", 1, 0),
     Result(1108, 2, "Qualifying", 34, 33, "FT", 2, 2)}

InitStandings ==
    /\ db \in {[SeededDb({39, 2}, {33, 34, 35}) EXCEPT !.fixtures = fixtures] :
                  fixtures \in SUBSET FixturePool}
    /\ NoRequests

NextStandings ==
    \/ \E league_id \in {39, 2}, season_year \in Years :
          StandingsRequest(league_id, season_year)
    \/ \E team1_id \in {33, 34, 35} :
          \E team2_id \in {33, 34, 35} \ {team1_id} :
             HeadToHeadRequest(team1_id, team2_id)
    \/ \E f \in FixturePool : RecentFormRequest(f.fixture_id)
    \/ \E team_id \in {33, 34, 35}, season_year \in Years :
          TeamStatisticsRequest(team_id, season_year)

SpecStandings == InitStandings /\ [][NextStandings]_vars

(* ---------------------------------------------------------------------- *)
(* The ingestion entry points when API_FOOTBALL_KEY is not set: each       *)
(* handler from its first line to its first return or raise, as a function *)
(* of the store.  None of them reaches a commit on this path.              *)
(*   fetched : the handler has sent a request to the source                *)
(* ---------------------------------------------------------------------- *)
Endpoints ==
    {"leagues", "teams", "players", "player_statistics", "fixtures", "odds",
     "predictions", "fixtures_data"}

\* raise HTTPException(status_code=500, detail="API key not configured."); a
\* handler that raises it inside its try wraps it again at its last line.
ConfigurationError ==
    [status_code |-> 500, detail |-> "API key not configured.", fetched |-> FALSE]

Answer(status_code, detail) ==
    [status_code |-> status_code, detail |-> detail, fetched |-> FALSE]

\* ingest_players.py lines 23-67 and 136-138: there is no check of the key;
\* with teams found, the None header value is refused when the request is
\* built.
PlayersWithoutApiKey(d) ==
    LET seasons == {s \in d.seasons : s.current} IN
    IF seasons = {} THEN Answer(200, "No current seasons found.")
    ELSE IF \E s \in seasons : TeamsOfSeason(d, s.league_id, s.year).raised
    THEN Answer(500, "type object 'Team' has no attribute 'league_id'")
    ELSE IF \A s \in seasons : TeamsOfSeason(d, s.league_id, s.year).rows = {}
    THEN Answer(200, "Players fetched and stored successfully")
    ELSE Answer(500, "Header value must be str or bytes")

\* ingest_leagues.py lines 31-34: the check comes first.
LeaguesWithoutApiKey == ConfigurationError

\* ingest_teams.py lines 25-40: the current seasons are selected first, and
\* without any the handler answers before it looks at the key.
TeamsWithoutApiKey(d) ==
    LET seasons == {s \in d.seasons : s.current} IN
    IF seasons = {} THEN Answer(200, "No current seasons found.")
    ELSE ConfigurationError

\* ingest_player_statistics.py lines 25-36: as in ingest_teams.py.
PlayerStatisticsWithoutApiKey(d) ==
    LET seasons == {s \in d.seasons : s.current} IN
    IF seasons = {} THEN Answer(200, "No current seasons found.")
    ELSE ConfigurationError

\* ingest_fixtures.py lines 30-34.
FixturesWithoutApiKey == ConfigurationError

\* ingest_odds.py lines 29-33.
OddsWithoutApiKey == ConfigurationError

\* ingest_predictions.py lines 26-30.
PredictionsWithoutApiKey == ConfigurationError

\* ingest_fixtures_data.py lines 30-33.
FixturesDataWithoutApiKey == ConfigurationError

\* The routers main.py includes, by prefix.
WithoutApiKey(endpoint, d) ==
    CASE endpoint = "leagues" -> LeaguesWithoutApiKey
      [] endpoint = "teams" -> TeamsWithoutApiKey(d)
      [] endpoint = "players" -> PlayersWithoutApiKey(d)
      [] endpoint = "player_statistics" -> PlayerStatisticsWithoutApiKey(d)
      [] endpoint = "fixtures" -> FixturesWithoutApiKey
      [] endpoint = "odds" -> OddsWithoutApiKey
      [] endpoint = "predictions" -> PredictionsWithoutApiKey
      [] endpoint = "fixtures_data" -> FixturesDataWithoutApiKey

UnconfiguredRequest(endpoint) ==
    /\ hist' = [hist EXCEPT !.entry =
                   [endpoint |-> endpoint] @@ WithoutApiKey(endpoint, db)]
    /\ UNCHANGED <<db, api, lrun, trun, frun, drun, prun, srun>>

(* ---------------------------------------------------------------------- *)
(* Specification: the service runs without API_FOOTBALL_KEY; requests to   *)
(* the ingestion entry points, on stores that ingestion has filled to      *)
(* different degrees.                                                      *)
(* ---------------------------------------------------------------------- *)
NotCurrent(d) ==
    [d EXCEPT !.seasons = {[s EXCEPT !.current = FALSE] : s \in d.seasons}]

EntryStores ==
    LET seeded == {SeededDb(league_set, team_set) :
                      league_set \in (SUBSET {39, 2}) \ {{}},
                      team_set \in SUBSET {33, 34}}
    IN {EmptyDb} \cup seeded \cup {NotCurrent(d) : d \in seeded}
       \cup {[SeededDb({39}, {33, 34}) EXCEPT !.fixtures = fixtures] :
                fixtures \in {{PlayedFixture}, {PlayedFixture, ComingFixture}}}

InitUnconfigured ==
    /\ db \in EntryStores
    /\ NoRequests

NextUnconfigured == \E endpoint \in Endpoints : UnconfiguredRequest(endpoint)

SpecUnconfigured == InitUnconfigured /\ [][NextUnconfigured]_vars

(* ---------------------------------------------------------------------- *)
(* Specification: prediction ingestion through both entry points, one      *)
(* call at a time, on a store that holds a played and a coming fixture.    *)
(* ---------------------------------------------------------------------- *)
InitPredictions ==
    /\ db = [SeededDb({39}, {33, 34}) EXCEPT
                !.fixtures = {PlayedFixture, ComingFixture}]
    /\ NoRequests

PredictionsIdle ==
    /\ prun["A"].pc \in {"idle", "done", "failed"}
    /\ drun["A"].pc \in {"idle", "odds_fetch"}

NextPredictions ==
    \/ PredictionsIdle /\ PredictionsStart("A")
    \/ \E resp \in PredictionBehaviours : PredictionsFetch("A", resp)
    \/ PredictionsFinish("A")
    \/ PredictionsIdle /\ \E f \in db.fixtures : PredictionCall("A", f.fixture_id)
    \/ \E resp \in PredictionFeeds : DataPrediction("A", resp)

SpecPredictions == InitPredictions /\ [][NextPredictions]_vars

(* ---------------------------------------------------------------------- *)
(* Specification: player and player statistics ingestion, two requests     *)
(* that may overlap, on a store that holds league 39 with team 33 and the  *)
(* Player row of player 276 for season 1; the current season is 1 or 2,    *)
(* or no season is stored (year 0).                                        *)
(* ---------------------------------------------------------------------- *)
FirstSeasonPlayer == Player(276, "N. Player", 33, 1)

SquadDb(year) ==
    [SeededDb({39}, {33}) EXCEPT
        !.seasons = {Season(39, y, <<2023 + y, 8, 16>>, y = year) : y \in 1..year},
        !.team_leagues = {TeamLeague(33, 39, y) : y \in 1..year},
        !.players = {FirstSeasonPlayer}]

InitSquad ==
    /\ db \in {SquadDb(0), SquadDb(1), SquadDb(2)}
    /\ NoRequests

NextSquad ==
    \E r \in RunIds :
        \/ PlayersStart(r)
        \/ \E resp \in PlayerFeeds : PlayersSeason(r, resp)
        \/ PlayersFinish(r)
        \/ PlayerStatsStart(r)
        \/ PlayerStatsSeason(r)
        \/ \E resp \in PlayerStatisticsFeeds : PlayerStatsFetch(r, resp)
        \/ PlayerStatsPlayer(r)
        \/ PlayerStatsLookup(r)
        \/ PlayerStatsWrite(r)
        \/ PlayerStatsFinish(r)

SpecSquad == InitSquad /\ [][NextSquad]_vars

(* ---------------------------------------------------------------------- *)
(* Specification: POST /odds run again after it has ended or has been      *)
(* interrupted, against a source that keeps giving the same answer, on a   *)
(* store that holds two coming fixtures.  The answers are those of         *)
(* OddsFeeds that name an update time and an odd for every value.          *)
(* ---------------------------------------------------------------------- *)
UpcomingFixture ==
    Fixture(1001, 39, 1, "Regular Season - 1", 33, 34, NoId, "UTC", "NS", FALSE, NoGoals, NoGoals)

RerunOddsFeeds ==
    {f \in OddsFeeds :
        \A i \in DOMAIN f.response :
           /\ f.response[i].update # None
           /\ \A j \in DOMAIN f.response[i].bookmakers :
                 \A k \in DOMAIN f.response[i].bookmakers[j].bets :
                    \A m \in DOMAIN f.response[i].bookmakers[j].bets[k].values :
                       f.response[i].bookmakers[j].bets[k].values[m].odd # None}

InitOddsRerun ==
    /\ db = [SeededDb({39}, {33, 34}) EXCEPT
                !.fixtures = {UpcomingFixture, ComingFixture}]
    /\ NoRequests

NextOddsRerun ==
    \/ PostOddsStart("A") /\ Serve("odds", RerunOddsFeeds)
    \/ PostOddsFetch("A", api.content)
    \/ PostOddsEntry("A")
    \/ PostOddsBookmaker("A")
    \/ PostOddsBet("A")
    \/ PostOddsCommit("A")
    \/ PostOddsFinish("A")
    \/ PostOddsInterrupt("A")

SpecOddsRerun == InitOddsRerun /\ [][NextOddsRerun]_vars

(* ---------------------------------------------------------------------- *)
(* Specification: two overlapping league ingestion requests on a store     *)
(* that is empty or holds league 39 with its season 1 flagged current; the *)
(* source names season 2, or seasons 1 and 2, as current.                  *)
(* ---------------------------------------------------------------------- *)
RaceLeagueFeeds ==
    {[status_code |-> 200,
      response |-> <<[name |-> "Premier League",
                      seasons |-> <<SeasonEntry(2, TRUE, ValidDate)>>]>>],
     [status_code |-> 200,
      response |-> <<[name |-> "Premier League",
                      seasons |-> <<SeasonEntry(1, TRUE, ValidDate),
                                    SeasonEntry(2, TRUE, ValidDate)>>]>>],
     [status_code |-> 200,
      response |-> <<[name |-> "Premier League",
                      seasons |-> <<SeasonEntry(1, TRUE, ValidDate),
                                    SeasonEntry(2, FALSE, "16/08/2024")>>]>>]}

InitLeaguesRace ==
    /\ db \in {EmptyDb, SeededDb({39}, {})}
    /\ NoRequests

NextLeaguesRace ==
    \E r \in RunIds :
        \/ LeagueStart(r) /\ UNCHANGED api
        \/ \E resp \in RaceLeagueFeeds : LeagueFetch(r, resp)
        \/ LeagueInsert(r)
        \/ SeasonClear(r)
        \/ SeasonLookup(r)
        \/ SeasonWrite(r)
        \/ LeagueFinish(r)

SpecLeaguesRace == InitLeaguesRace /\ [][NextLeaguesRace]_vars

(* ---------------------------------------------------------------------- *)
(* Specification: the ingestion requests in any order, one at a time, on   *)
(* a store that is empty or holds league 39 with its current season 1,     *)
(* the teams 33 and 34 (not yet linked to the season), player 276 and the  *)
(* played fixture 1001.  The source gives each request the same answers:   *)
(* AnyOrderSource names, per resource, the answers it may give.            *)
(* ---------------------------------------------------------------------- *)
AnyOrderSource ==
    [leagues |->
        {[status_code |-> 200,
          response |-> <<[name |-> "Premier League",
                          seasons |-> <<SeasonEntry(1, TRUE, ValidDate)>>]>>]},
     teams |->
        {[status_code |-> 200,
          response |-> <<[id |-> 33, name |-> "FC"], [id |-> 34, name |-> "FC"]>>]},
     fixtures |->
        {[status_code |-> 200,
          response |-> <<FixtureItem(1001, 33, 34, 7, "UTC", "FT", 2, 0),
                         FixtureItem(1002, 34, 33, NoId, "UTC", "NS", NoGoals, NoGoals)>>]},
     players |-> {[status_code |-> 200, response |-> <<item>>] : item \in PlayerItems},
     player_statistics |->
        {f \in PlayerStatisticsFeeds :
            /\ f.status_code = 200 /\ f.json
            /\ \E i \in DOMAIN f.response :
                  f.response[i].statistics = <<StatsData(39, 1, 1)>>},
     predictions |-> {f \in PredictionFeeds : f.response # <<>>},
     odds |-> {f \in RerunOddsFeeds :
                 Len(f.response) = 1 /\ Len(f.response[1].bookmakers) = 1},
     statistics |-> {f \in StatisticsFeeds : f.status_code = 200},
     events |-> {f \in EventFeeds : f.status_code = 200}]

AnyOrderSeed ==
    [SeededDb({39}, {33, 34}) EXCEPT
        !.team_leagues = {},
        !.players = {FirstSeasonPlayer},
        !.fixtures = {PlayedFixture}]

\* The handler of the last request has returned or raised.
AnyOrderAnswered ==
    /\ PipelineIdle
    /\ drun["A"].pc \in {"idle", "done", "post_done", "post_failed", "post_interrupted"}
    /\ prun["A"].pc \in {"idle", "done", "failed"}
    /\ srun["A"].pc \in {"idle", "done", "failed"}

\* No request is being served and nothing is left of the last one.
AnyOrderIdle ==
    /\ lrun["A"] = IdleLeagueRun
    /\ trun["A"] = IdleTeamRun
    /\ frun["A"] = IdleFixtureRun
    /\ drun["A"].pc = "idle"
    /\ prun["A"] = IdlePredictionRun
    /\ srun["A"] = IdleSquadRun

\* The response is sent: the locals of the handler and its session are gone,
\* the store and the count of the calls served are all that stays.
AnyOrderReturn ==
    /\ AnyOrderAnswered
    /\ ~AnyOrderIdle
    /\ lrun' = [r \in RunIds |-> IdleLeagueRun]
    /\ trun' = [r \in RunIds |-> IdleTeamRun]
    /\ frun' = [r \in RunIds |-> IdleFixtureRun]
    /\ drun' = [r \in RunIds |-> [IdleDataRun EXCEPT !.served = drun[r].served]]
    /\ prun' = [r \in RunIds |-> IdlePredictionRun]
    /\ srun' = [r \in RunIds |-> IdleSquadRun]
    /\ api' = NoApi
    /\ hist' = InitHist
    /\ UNCHANGED db

InitAnyOrder ==
    /\ db \in {EmptyDb, AnyOrderSeed}
    /\ NoRequests

NextAnyOrder ==
    \/ AnyOrderIdle /\ LeagueStart("A") /\ Serve("leagues", AnyOrderSource.leagues)
    \/ AnyOrderIdle /\ TeamStart("A") /\ Serve("teams", AnyOrderSource.teams)
    \/ AnyOrderIdle /\ FixtureStart("A") /\ Serve("fixtures", AnyOrderSource.fixtures)
    \/ AnyOrderIdle /\ PlayersStart("A")
    \/ AnyOrderIdle /\ PlayerStatsStart("A")
    \/ AnyOrderIdle /\ PredictionsStart("A")
    \/ AnyOrderIdle /\ PostOddsStart("A") /\ Serve("odds", AnyOrderSource.odds)
    \/ AnyOrderIdle /\ DataStart("A")
    \/ LeagueFetch("A", api.content)
    \/ LeagueInsert("A")
    \/ SeasonClear("A")
    \/ SeasonLookup("A")
    \/ SeasonWrite("A")
    \/ LeagueFinish("A")
    \/ TeamFetch("A", api.content)
    \/ TeamItem("A")
    \/ TeamCommitTeams("A")
    \/ TeamCommitAssocs("A")
    \/ TeamFinish("A")
    \/ FixtureFetch("A", api.content)
    \/ FixtureRecord("A")
    \/ FixtureFinish("A")
    \/ \E resp \in AnyOrderSource.players : PlayersSeason("A", resp)
    \/ PlayersFinish("A")
    \/ PlayerStatsSeason("A")
    \/ \E resp \in AnyOrderSource.player_statistics : PlayerStatsFetch("A", resp)
    \/ PlayerStatsPlayer("A")
    \/ PlayerStatsLookup("A")
    \/ PlayerStatsWrite("A")
    \/ PlayerStatsFinish("A")
    \/ \E resp \in {b \in PredictionBehaviours :
                       \E f \in AnyOrderSource.predictions : b.response = f.response} :
          PredictionsFetch("A", resp)
    \/ PredictionsFinish("A")
    \/ PostOddsFetch("A", api.content)
    \/ PostOddsEntry("A")
    \/ PostOddsBookmaker("A")
    \/ PostOddsBet("A")
    \/ PostOddsCommit("A")
    \/ PostOddsFinish("A")
    \/ \E resp \in AnyOrderSource.predictions : DataPrediction("A", resp)
    \/ \E resp \in AnyOrderSource.odds : OddsFetch("A", resp)
    \/ OddsEntry("A")
    \/ OddsBookmaker("A")
    \/ OddsBet("A")
    \/ OddsCommit("A")
    \/ DataAfterOdds("A")
    \/ \E resp \in AnyOrderSource.statistics : StatsFetch("A", resp)
    \/ StatsStore("A")
    \/ \E resp \in AnyOrderSource.events : EventsFetch("A", resp)
    \/ EventsStore("A")
    \/ DataFinish("A")
    \/ AnyOrderReturn

SpecAnyOrder == InitAnyOrder /\ [][NextAnyOrder]_vars

(* ---------------------------------------------------------------------- *)
(* Specification: by-id read requests, for stored and for unknown ids, on  *)
(* stores that hold three linked teams, any of four fixtures, and          *)
(* optionally a player and a prediction.                                   *)
(* ---------------------------------------------------------------------- *)
ReadFixtures == {f \in FixturePool : f.fixture_id \in {1101, 1102, 1105, 1106}}

FirstPrediction == Prediction(1, 1101, 33, "Home")

ReadStores ==
    {[SeededDb({39}, {33, 34, 35}) EXCEPT
         !.fixtures = fixtures, !.players = players, !.predictions = predictions] :
       fixtures \in SUBSET ReadFixtures,
       players \in SUBSET {FirstSeasonPlayer},
       predictions \in SUBSET {FirstPrediction}}

InitReads ==
    /\ db \in {d \in ReadStores :
                 \A p \in d.predictions :
                    \E f \in d.fixtures : f.fixture_id = p.fixture_id}
    /\ NoRequests

NextReads ==
    \/ \E team_id \in {33, 36} : GetTeamById(team_id)
    \/ \E team_id \in {33, 36}, season_year \in Years :
          TeamStatisticsRequest(team_id, season_year)
    \/ \E player_id \in {276, 277} : GetPlayerById(player_id)
    \/ \E prediction_id \in {1, 2} : GetPredictionById(prediction_id)
    \/ \E fixture_id \in {1101, 1102, 1105, 1106} : GetDetailedFixture(fixture_id)

SpecReads == InitReads /\ [][NextReads]_vars

(* ---------------------------------------------------------------------- *)
(* Specification: overlapping fixture ingestion requests on a store that   *)
(* holds league 39 with its current season and the teams 33 and 34.  The   *)
(* source serves fixture 1002, not started or finished 1-1.                *)
(* ---------------------------------------------------------------------- *)
RaceFixtureFeeds ==
    {[status_code |-> 200, response |-> <<item>>] :
        item \in {FixtureItem(1002, 34, 33, NoId, "UTC", "NS", NoGoals, NoGoals),
                  FixtureItem(1002, 34, 33, NoId, "UTC", "FT", 1, 1),
                  FixtureItem(1001, 33, 34, 7, "UTC", "FT", 2, 0)}}

InitFixturesRace ==
    /\ db = SeededDb({39}, {33, 34})
    /\ NoRequests

NextFixturesRace ==
    \E r \in RunIds :
        \/ FixtureStart(r) /\ UNCHANGED api
        \/ \E resp \in RaceFixtureFeeds : FixtureFetch(r, resp)
        \/ FixtureRecord(r)
        \/ FixtureFinish(r)

SpecFixturesRace == InitFixturesRace /\ [][NextFixturesRace]_vars

(* ---------------------------------------------------------------------- *)
(* Specification: the two odds fetches against a source that serves the   *)
(* odds of a fixture in api.content pages, one bookmaker per page, on a    *)
(* store that holds two coming fixtures: POST /odds, and                   *)
(* fetch_and_store_odds_for_fixture called for a stored fixture.           *)
(* ---------------------------------------------------------------------- *)
MaxPages == 2

PageBookmakers ==
    <<[id |-> 8, name |-> "Bet365"], [id |-> 6, name |-> "Bwin"],
      [id |-> 11, name |-> "1xBet"], [id |-> 16, name |-> "Unibet"]>>

\* GET /odds?fixture=<fixture_id>&page=<page> on a source with `total` pages.
PagedOdds(fixture_id, page, total) ==
    [status_code |-> 200,
     response |->
        IF page > total THEN <<>>
        ELSE <<OddsData(fixture_id, "2024-08-16T10:00:00+00:00",
                  <<BookmakerData(PageBookmakers[page].id, PageBookmakers[page].name,
                       <<BetData(1, "Match Winner",
                            <<ValueData("Home", "1.50")>>)>>)>>)>>,
     paging |-> [current |-> page, total |-> total]]

\* The fixture the next request of POST /odds names.
RequestedFixture(dr) ==
    IF dr.page > 1 THEN dr.fixture_id ELSE Head(dr.fixture_rows)[1]

InitPaging ==
    /\ db = [SeededDb({39}, {33, 34}) EXCEPT
                !.fixtures = {UpcomingFixture, ComingFixture}]
    /\ api \in {[kind |-> "odds", content |-> total] : total \in 1..MaxPages}
    /\ lrun = [r \in RunIds |-> IdleLeagueRun]
    /\ trun = [r \in RunIds |-> IdleTeamRun]
    /\ frun = [r \in RunIds |-> IdleFixtureRun]
    /\ drun = [r \in RunIds |-> IdleDataRun]
    /\ prun = [r \in RunIds |-> IdlePredictionRun]
    /\ srun = [r \in RunIds |-> IdleSquadRun]
    /\ hist = InitHist

NextPaging ==
    \/ PostOddsStart("A") /\ UNCHANGED api
    \/ PostOddsFetch("A", PagedOdds(RequestedFixture(drun["A"]), drun["A"].page,
                                    api.content))
    \/ PostOddsEntry("A")
    \/ PostOddsBookmaker("A")
    \/ PostOddsBet("A")
    \/ PostOddsCommit("A")
    \/ PostOddsFinish("A")
    \/ \E f \in db.fixtures : OddsCall("A", f.fixture_id)
    \/ OddsFetch("A", PagedOdds(drun["A"].fixture_id, 1, api.content))
    \/ OddsEntry("A")
    \/ OddsBookmaker("A")
    \/ OddsBet("A")
    \/ OddsCommit("A")

SpecPaging == InitPaging /\ [][NextPaging]_vars

(* ====================================================================== *)
(* Claims                                                                  *)
(* ====================================================================== *)

\* C1: when a league, team or fixture ingestion request answers 200 right
\* after a request of the same handler answered 200, the source unchanged in
\* between, the second request has inserted no row and the store is the one
\* it started from.
C1_Idempotent ==
    (hist.lastKind # "none" /\ hist.lastKind = hist.prevKind) =>
        (hist.inserted = 0 /\ db = hist.snap)

\* A repeated team ingestion on a store the first one has filled.
C1_Witness ==
    /\ hist.lastKind = "teams"
    /\ hist.prevKind = "teams"
    /\ Cardinality(db.teams) = 2
    /\ Cardinality(db.team_leagues) = 2
    /\ \E s \in db.seasons : s.current

\* C2: after a league ingestion request that had the stage to itself, every
\* league it upserted a season for has exactly one season flagged current,
\* the one upserted last.
C2_SingleCurrentSeason ==
    lrun["A"].pc = "done" =>
        \A l \in ServedLeagues :
            hist.lastUpserted[l] # 0 =>
                {s.year : s \in CurrentSeasons(db, l)} = {hist.lastUpserted[l]}

\* The request has finished on a league with two stored seasons, one current.
C2_Witness ==
    /\ lrun["A"].pc = "done"
    /\ \E l \in ServedLeagues :
          /\ Cardinality({s \in db.seasons : s.league_id = l}) >= 2
          /\ hist.lastUpserted[l] # 0
          /\ Cardinality(CurrentSeasons(db, l)) = 1

\* C3: under overlapping league ingestion requests no committed state of
\* the store shows two seasons of one league flagged current.
C3_NoTwoCurrentCommitted ==
    \A l \in ServedLeagues : Cardinality(CurrentSeasons(db, l)) <= 1

\* Rows in the order of their serial ids, that is of their insertion.
RECURSIVE SortById(_)
SortById(rows) ==
    IF rows = {} THEN <<>>
    ELSE LET first == CHOOSE x \in rows : \A y \in rows : x.id <= y.id
         IN <<first>> \o SortById(rows \ {first})

\* The odds tree stored for a fixture, read from the four tables.
StoredValues(d, bet) ==
    LET rows == SortById({v \in d.odd_values : v.bet_id = bet.id}) IN
    [i \in DOMAIN rows |-> [value |-> rows[i].value, odd |-> rows[i].odd]]

StoredBets(d, fixture_bookmaker) ==
    LET rows == SortById({b \in d.bets :
                            b.fixture_bookmaker_id = fixture_bookmaker.id})
    IN [i \in DOMAIN rows |->
           [id |-> rows[i].bet_type_id, values |-> StoredValues(d, rows[i])]]

StoredBookmakers(d, fixture_odds) ==
    LET rows == SortById({b \in d.fixture_bookmakers :
                            b.fixture_odds_id = fixture_odds.id})
    IN [i \in DOMAIN rows |->
           [id |-> rows[i].bookmaker_id, bets |-> StoredBets(d, rows[i])]]

StoredTree(d, fixture_id) ==
    LET rows == SortById({o \in d.fixture_odds : o.fixture_id = fixture_id}) IN
    [i \in DOMAIN rows |->
        [update_time |-> rows[i].update_time,
         bookmakers |-> StoredBookmakers(d, rows[i])]]

\* The odds tree an answer of the source describes for a fixture.
IsForCalledFixture(odds_data) == odds_data.fixture = hist.tree.fixture_id

FetchedTree(response) ==
    LET entries == SelectSeq(response, IsForCalledFixture) IN
    [i \in DOMAIN entries |->
        [update_time |-> fromisoformat(entries[i].update).value,
         bookmakers |->
            [j \in DOMAIN entries[i].bookmakers |->
                [id |-> entries[i].bookmakers[j].id,
                 bets |->
                    [k \in DOMAIN entries[i].bookmakers[j].bets |->
                        [id |-> entries[i].bookmakers[j].bets[k].id,
                         values |-> entries[i].bookmakers[j].bets[k].values]]]]]]

\* C4: when fetch_and_store_odds_for_fixture has run to completion for a
\* fixture that had an odds tree, the tree stored for the fixture is the
\* fetched one, row for row, and no FixtureOdds, FixtureBookmaker, Bet or
\* OddValue row of the earlier tree is left in the store.
C4_OddsTreeReplaced ==
    (/\ hist.tree.kind = "odds"
     /\ hist.tree.outcome = "completed"
     /\ hist.tree.before.fixture_odds # {}) =>
        /\ StoredTree(db, hist.tree.fixture_id) = FetchedTree(hist.tree.response)
        /\ Ids(db.fixture_odds) \cap hist.tree.before.fixture_odds = {}
        /\ Ids(db.fixture_bookmakers) \cap hist.tree.before.fixture_bookmakers = {}
        /\ Ids(db.bets) \cap hist.tree.before.bets = {}
        /\ Ids(db.odd_values) \cap hist.tree.before.odd_values = {}
        /\ \A b \in db.fixture_bookmakers : b.fixture_odds_id \in Ids(db.fixture_odds)
        /\ \A b \in db.bets : b.fixture_bookmaker_id \in Ids(db.fixture_bookmakers)
        /\ \A v \in db.odd_values : v.bet_id \in Ids(db.bets)

\* A tree of one bookmaker and two odd values has been replaced by the
\* fetched tree of two bookmakers.
C4_Witness ==
    /\ hist.tree.kind = "odds"
    /\ hist.tree.outcome = "completed"
    /\ Cardinality(hist.tree.before.fixture_bookmakers) = 1
    /\ Cardinality(hist.tree.before.odd_values) = 2
    /\ Cardinality(db.fixture_bookmakers) = 2
    /\ Cardinality(db.odd_values) = 2

\* The rows of the called kind the fixture of the call has in the store.
RowsOfCall(d, call) ==
    IF call.kind = "odds"
    THEN Ids({o \in d.fixture_odds : o.fixture_id = call.fixture_id})
    ELSE IF call.kind = "statistics"
    THEN Ids({m \in d.match_statistics : m.fixture_id = call.fixture_id})
    ELSE Ids({e \in d.match_events : e.fixture_id = call.fixture_id})

HadRows(call) ==
    IF call.kind = "odds" THEN call.before.fixture_odds # {}
    ELSE call.before # {}

\* C5: when the insertion of a fixture's fetched odds, statistics or events
\* has failed, a fixture that had rows of that kind before the call still
\* has rows of that kind.
C5_NeverLeftDeleted ==
    (hist.tree.outcome = "failed" /\ HadRows(hist.tree)) =>
        RowsOfCall(db, hist.tree) # {}

WellFormed(item) ==
    /\ item.id # NoId
    /\ item.home # NoId
    /\ item.away # NoId
    /\ item.timezone # None
    /\ item.status_short # None

TeamsStored(item) == {item.home, item.away} \subseteq TeamKeys(db)

\* C6: a fixture ingestion request that has met a malformed record does not
\* abort, and when it has answered 200 every well-formed record it went
\* through, whose teams are stored, has its Fixture row.
C6_PartialFailureIsolation ==
    (\E h \in hist.handled : ~WellFormed(h.item)) =>
        /\ frun["A"].pc # "failed"
        /\ frun["A"].pc = "done" =>
              \A h \in hist.handled :
                  (WellFormed(h.item) /\ TeamsStored(h.item)) =>
                      \E f \in db.fixtures :
                          /\ f.fixture_id = h.item.id
                          /\ f.league_id = h.league_id
                          /\ f.season_year = h.season_year

\* C7: a fixture record that names a team absent from the store leaves no
\* Fixture row, and the request that went through it does not abort.
C7_DependentSkip ==
    \A h \in hist.handled :
        (h.item.home # NoId /\ h.item.away # NoId /\ ~TeamsStored(h.item)) =>
            /\ ~\E f \in db.fixtures : f.fixture_id = h.item.id
            /\ frun["A"].pc # "failed"

\* C8: when two overlapping team ingestion requests stage the same new
\* natural key, neither aborts: a request only fails on a batch that repeats
\* a key itself.
C8_ConcurrentInsertHarmless ==
    \A r \in RunIds :
        trun[r].pc = "failed" =>
            \/ HasDuplicates(trun[r].teams_to_add)
            \/ HasDuplicates(trun[r].associations_to_add)

Terminal(d, league_id, season_year) ==
    {f \in d.fixtures : /\ f.league_id = league_id
                        /\ f.season_year = season_year
                        /\ f.status_short \in final_statuses}

\* C9: with the teams 33, 34 and 35 linked to league 39, season 1, and the
\* terminal fixtures of that season being 33 2-0 34, 34 1-1 35 and
\* 33 3-1 35, the standings request answers 200 with three rows: 33 first
\* with 2 wins, 6 points and goal difference +4, then 34 and then 35, each
\* with 1 draw, 1 loss and 1 point.
C9_StandingsScenario ==
    (/\ hist.answer.kind = "standings"
     /\ hist.answer.league_id = 39
     /\ hist.answer.season_year = 1
     /\ Terminal(db, 39, 1) = ScenarioFixtures) =>
        /\ hist.answer.status_code = 200
        /\ Len(hist.answer.body) = 3
        /\ LET a == hist.answer.body[1]
               b == hist.answer.body[2]
               c == hist.answer.body[3]
           IN /\ a.team_id = 33 /\ a.rank = 1 /\ a.wins = 2
              /\ a.points = 6 /\ a.goal_difference = 4
              /\ b.team_id = 34 /\ b.draws = 1 /\ b.losses = 1 /\ b.points = 1
              /\ c.team_id = 35 /\ c.draws = 1 /\ c.losses = 1 /\ c.points = 1

\* C11: with no API key configured, every ingestion entry point fails with
\* the configuration error, whatever the store holds, before it fetches
\* anything and without writing to the store.
C11_MissingCredentialFatal ==
    [][/\ hist'.entry.status_code = 500
       /\ hist'.entry.detail = ConfigurationError.detail
       /\ ~hist'.entry.fetched
       /\ db' = db]_vars

\* C12: with the API key configured, an ingestion request answers with its
\* summary whatever the source does (transport error, status other than
\* 200, body that is not JSON, empty page) and whatever record fails to be
\* mapped or stored: no request ends in HTTP 500.
C12_OnlyCredentialIsFatal == prun["A"].pc # "failed"

\* C13: after any sequence of prediction ingestions through either entry
\* point, a fixture whose prediction has been fetched has exactly one
\* Prediction row, which carries the fields fetched last, and no ingestion
\* of a fixture that has a prediction already fails.
C13_PredictionUpsert ==
    /\ \A f \in FixtureIds :
          hist.fetched_prediction[f] # NoPrediction =>
             \E p \in db.predictions :
                /\ {q \in db.predictions : q.fixture_id = f} = {p}
                /\ p.winner_team_id = hist.fetched_prediction[f].winner
                /\ p.advice = hist.fetched_prediction[f].advice
    /\ prun["A"].error # "UniqueViolation"


\* C14: a player ingestion request does not fail, keeps the Player rows of
\* the seasons stored before it, and leaves at most one Player row for each
\* pair (player_id, season_year): a player stored for season 1 and fetched
\* again for season 2 ends with one row per season.
C14_PlayerIdentity ==
    \A r \in RunIds :
        srun[r].kind = "players" =>
            /\ srun[r].pc # "failed"
            /\ FirstSeasonPlayer \in db.players
            /\ \A p, q \in db.players :
                  (p.player_id = q.player_id /\ p.season_year = q.season_year)
                      => p = q
            /\ srun[r].pc = "done" =>
                  \A s \in db.seasons :
                     (s.current /\ hist.inserted > 0) =>
                        \E p \in db.players : p.season_year = s.year

\* C15: the store never holds two PlayerStatistics rows for the same
\* (player_id, team_id, league_id, season_year), also when two ingestion
\* requests overlap.
C15_StatisticsUnique ==
    \A a, b \in db.player_statistics :
        (/\ a.player_id = b.player_id
         /\ a.team_id = b.team_id
         /\ a.league_id = b.league_id
         /\ a.season_year = b.season_year) => a = b


\* C16: whatever the store holds, a standings request answers 200 with a
\* list sorted by points, then goal difference, then goals_for, each
\* descending; the ranks are 1..n in list order; each row has
\* points = 3*wins + draws and goal_difference = goals_for - goals_against;
\* no team appears twice.
C16_StandingsOrdered ==
    hist.answer.kind = "standings" =>
        LET body == hist.answer.body IN
        /\ hist.answer.status_code = 200
        /\ \A i \in DOMAIN body :
              /\ body[i].rank = i
              /\ body[i].points = 3 * body[i].wins + body[i].draws
              /\ body[i].goal_difference =
                    body[i].goals_for - body[i].goals_against
        /\ \A i, j \in DOMAIN body :
              i < j =>
                 /\ body[i].team_id # body[j].team_id
                 /\ \/ body[i].points > body[j].points
                    \/ /\ body[i].points = body[j].points
                       /\ body[i].goal_difference > body[j].goal_difference
                    \/ /\ body[i].points = body[j].points
                       /\ body[i].goal_difference = body[j].goal_difference
                       /\ body[i].goals_for >= body[j].goals_for


\* C17: standings, head-to-head, recent form and team statistics each read
\* every fixture in their scope (the league and season, the pair of teams,
\* the team, the team and season) whose status is terminal: FT, AET, PEN,
\* AWD or WO.
C17_TerminalCoverage ==
    LET report == hist.report
        Plays(f, team_id) == f.home_team_id = team_id \/ f.away_team_id = team_id
        InScope(f) ==
            CASE report.kind = "standings" ->
                    /\ f.league_id = report.league_id
                    /\ f.season_year = report.season_year
                    /\ report.league_id \in {2, 3} => IsLeagueStage(f.round)
              [] report.kind = "head_to_head" ->
                    Plays(f, report.team_id) /\ Plays(f, report.other_team_id)
              [] report.kind = "recent_form" -> Plays(f, report.team_id)
              [] report.kind = "team_statistics" ->
                    Plays(f, report.team_id) /\ f.season_year = report.season_year
              [] OTHER -> FALSE
    IN \A f \in db.fixtures :
          (InScope(f) /\ f.status_short \in final_statuses) =>
              f.fixture_id \in report.fixtures


\* The odds tree an answer of the source describes for one fixture.
TreeOf(response, fixture_id) ==
    LET IsFor(odds_data) == odds_data.fixture = fixture_id
        entries == SelectSeq(response, IsFor)
    IN [i \in DOMAIN entries |->
           [update_time |-> fromisoformat(entries[i].update).value,
            bookmakers |->
               [j \in DOMAIN entries[i].bookmakers |->
                   [id |-> entries[i].bookmakers[j].id,
                    bets |->
                       [k \in DOMAIN entries[i].bookmakers[j].bets |->
                           [id |-> entries[i].bookmakers[j].bets[k].id,
                            values |-> entries[i].bookmakers[j].bets[k].values]]]]]]

\* C19: when an odds ingestion request has been interrupted after one of
\* its commits and the request is run again to its end against the same
\* source, the second request does not fail, no fixture has two FixtureOdds
\* rows, and the odds tree stored for each fixture is the one the source
\* describes, as after a single uninterrupted request.
C19_SafeRerun ==
    (/\ hist.interrupted
     /\ hist.kind = "odds"
     /\ drun["A"].pc \in {"post_done", "post_failed"}) =>
        /\ drun["A"].pc = "post_done"
        /\ \A f \in db.fixtures :
              StoredTree(db, f.fixture_id) = TreeOf(api.content.response, f.fixture_id)


\* C20: in league ingestion the cleared current flags reach the store only
\* together with the inserted or updated season: no step takes a league
\* that has a current season to a store in which it has none, and a season
\* write that fails leaves the seasons as they were, flags included.
C20_ClearingAtomic ==
    [][/\ \A l \in ServedLeagues :
             CurrentSeasons(db, l) # {} => CurrentSeasons(db', l) # {}
       /\ hist'.restored # hist.restored => db'.seasons = db.seasons]_vars

\* A season insert has failed after the UPDATE had cleared the flag of a
\* season, and that season is flagged current in the store.
C20_Witness ==
    /\ hist.restored # {}
    /\ \E s \in db.seasons : s.current /\ <<s.league_id, s.year>> \in hist.restored


\* Every reference of the tables the pipeline fills points at a stored row.
Referenced(d) ==
    /\ \A f \in d.fixtures :
          /\ {f.home_team_id, f.away_team_id} \subseteq TeamKeys(d)
          /\ \E l \in d.leagues : l.league_id = f.league_id
    /\ \A tl \in d.team_leagues :
          /\ tl.team_id \in TeamKeys(d)
          /\ <<tl.league_id, tl.season_year>> \in SeasonKeys(d)
    /\ \A ps \in d.player_statistics :
          \E p \in d.players : p.player_id = ps.player_id
    /\ \A x \in d.predictions \cup d.fixture_odds \cup d.match_statistics
                  \cup d.match_events :
          \E f \in d.fixtures : f.fixture_id = x.fixture_id

\* C18: whatever the order of the ingestion requests, every Fixture points
\* at stored teams and a stored league, every TeamLeague at a stored team
\* and season, every PlayerStatistics at a stored player, and every
\* Prediction, FixtureOdds, MatchStatistics and MatchEvent at a stored
\* fixture; and no request creates a row of an earlier stage: League and
\* Season rows come from league ingestion only, Team rows from team
\* ingestion, Player rows from player ingestion and Fixture rows from
\* fixture ingestion.
C18_ReferentialIntegrity ==
    [][/\ Referenced(db')
       /\ (db'.leagues # db.leagues \/ db'.seasons # db.seasons)
             => hist'.kind = "leagues"
       /\ db'.teams # db.teams => hist'.kind = "teams"
       /\ db'.players # db.players => hist'.kind = "players"
       /\ db'.fixtures # db.fixtures => hist'.kind = "fixtures"]_vars

\* Team ingestion, player statistics ingestion and fixtures-data ingestion
\* have run on the seeded store: every referencing table holds a row.
C18_Witness ==
    /\ db.team_leagues # {}
    /\ db.player_statistics # {}
    /\ db.predictions # {}
    /\ db.fixture_odds # {}
    /\ db.match_statistics # {}
    /\ db.match_events # {}


\* C28: for the league and season of a standings request, every row the
\* statistics query yields has wins + draws + losses = matches_played,
\* also when the store holds FT fixtures without goals.
C28_CountsConsistent ==
    hist.report.kind = "standings" =>
        \A row \in StandingRows(db, hist.report.league_id, hist.report.season_year) :
            row.wins + row.draws + row.losses = row.matches_played


\* The goals of a team in a fixture it played; NoGoals when the score is
\* missing.
GoalsOf(f, team_id) ==
    IF f.home_team_id = team_id THEN f.goals_home ELSE f.goals_away

\* The number of fixtures of the list in which team_id scored more than
\* other_id.
WonBy(fixtures, team_id, other_id) ==
    Cardinality({i \in DOMAIN fixtures :
                    /\ GoalsOf(fixtures[i], team_id) # NoGoals
                    /\ GoalsOf(fixtures[i], other_id) # NoGoals
                    /\ GoalsOf(fixtures[i], team_id) > GoalsOf(fixtures[i], other_id)})

\* C29: for every list of fixtures calculate_h2h_stats is called with, it
\* returns a result in which home_team_wins + away_team_wins + draws =
\* total_matches, recent_matches has total_matches entries, and each team's
\* wins are the fixtures in which that team scored more, on either side.
C29_TallyConsistent ==
    hist.h2h.called =>
        LET r == hist.h2h.result IN
        /\ ~r.raised
        /\ r.home_team_wins + r.away_team_wins + r.draws = r.total_matches
        /\ Len(r.recent_matches) = r.total_matches
        /\ r.home_team_wins =
              WonBy(hist.h2h.fixtures, hist.h2h.home_team_id, hist.h2h.away_team_id)
        /\ r.away_team_wins =
              WonBy(hist.h2h.fixtures, hist.h2h.away_team_id, hist.h2h.home_team_id)

\* C30: a by-id read request for an id that matches no row is answered
\* with status 404.
C30_NotFoundIs404 ==
    (hist.lookup.endpoint # "none" /\ ~hist.lookup.found) =>
        hist.lookup.status_code = 404


\* C23: when a POST /odds request has ended, no request having been
\* interrupted, and the store held a FixtureOdds row before it, the request
\* has answered with its summary, and every fixture that had a row and for
\* which the source has served odds has exactly one FixtureOdds row, whose
\* tree is the one the source describes.
C23_OddsReplaced ==
    (/\ hist.kind = "odds"
     /\ ~hist.interrupted
     /\ drun["A"].pc \in {"post_done", "post_failed"}
     /\ hist.snap.fixture_odds # {}) =>
        /\ drun["A"].pc = "post_done"
        /\ \A f \in db.fixtures :
              (/\ \E o \in hist.snap.fixture_odds : o.fixture_id = f.fixture_id
               /\ TreeOf(api.content.response, f.fixture_id) # <<>>) =>
                  /\ Cardinality({o \in db.fixture_odds :
                                     o.fixture_id = f.fixture_id}) = 1
                  /\ StoredTree(db, f.fixture_id) =
                        TreeOf(api.content.response, f.fixture_id)


\* C22: from the moment fetch_and_store_odds_for_fixture has fetched odds
\* for a fixture, the stored odds tree of that fixture is, in every
\* committed state, either the tree the store held when the request began
\* or the complete tree the fetched answer describes.
C22_TreeAtomic ==
    (/\ hist.kind = "fixtures_data"
     /\ hist.tree.kind = "odds"
     /\ hist.tree.outcome # "skipped") =>
        LET fixture_id == hist.tree.fixture_id IN
        \/ StoredTree(db, fixture_id) = StoredTree(hist.snap, fixture_id)
        \/ StoredTree(db, fixture_id) = TreeOf(hist.tree.response, fixture_id)

\* The step is a fetch of the odds, the statistics or the events of a
\* fixture, and the source answered with a status other than 200 or with
\* an empty response list.
FetchSkipped ==
    /\ drun["A"].pc \in {"odds_fetch", "stats_fetch", "events_fetch"}
    /\ drun'["A"].pc # drun["A"].pc
    /\ hist'.tree.outcome = "skipped"

\* Where the request goes on after each of the three fetches.
AfterFetch(dr) ==
    IF dr.pc = "odds_fetch" THEN {"odds_returned"}
    ELSE IF dr.pc = "stats_fetch" THEN {"events_fetch"}
    ELSE {"prediction", "finish"}

\* C27: a fetch of odds, match statistics or match events that returns a
\* non-200 status or an empty response list deletes nothing and inserts
\* nothing: the store is the same after the step, the fixture's rows of that
\* kind are the ones it had, and the request goes on with the next fetch.
C27_FailedFetchUntouched ==
    [][FetchSkipped =>
          /\ db' = db
          /\ RowsOfCall(db', hist'.tree) = RowsOfCall(db, hist'.tree)
          /\ drun'["A"].pc \in AfterFetch(drun["A"])]_vars

\* A statistics fetch has been skipped for a fixture that has statistics
\* rows from an earlier request, and the rows are still stored.
C27_Witness ==
    /\ hist.tree.kind = "statistics"
    /\ hist.tree.outcome = "skipped"
    /\ HadRows(hist.tree)
    /\ drun["A"].pc = "events_fetch"
    /\ RowsOfCall(db, hist.tree) = hist.tree.before

\* The record is the first sighting of its fixture: the store held no
\* Fixture row with its id when the request began, and the request has met
\* the id in one record only.
FirstSighting(h) ==
    /\ ~\E f \in hist.snap.fixtures : f.fixture_id = h.item.id
    /\ \A g \in hist.handled : g.item.id = h.item.id => g = h

\* C25: a fixture record with a fixture id and both team ids, whose home and
\* away teams are stored for the season of the run and whose fixture id was
\* not stored, has exactly one Fixture row, with the league and the season
\* of the run and the status and the scores of the record.
C25_FirstSightingInserted ==
    (hist.kind = "fixtures") =>
        \A h \in hist.handled :
            (/\ WellFormed(h.item)
             /\ TeamsStored(h.item)
             /\ \A t \in {h.item.home, h.item.away} :
                   TeamLeague(t, h.league_id, h.season_year) \in db.team_leagues
             /\ FirstSighting(h)) =>
                LET rows == {f \in db.fixtures : f.fixture_id = h.item.id} IN
                /\ Cardinality(rows) = 1
                /\ \A f \in rows :
                      /\ f.league_id = h.league_id
                      /\ f.season_year = h.season_year
                      /\ f.status_short = h.item.status_short
                      /\ f.goals_home = h.item.goals_home
                      /\ f.goals_away = h.item.goals_away

\* C26: when a league ingestion request has met the record of a league whose
\* League row is stored under another name, and no league request is
\* running, the stored row carries the name of the record.
C26_ResightingUpdates ==
    (/\ hist.sighted.league_id # 0
     /\ \A r \in RunIds : lrun[r].pc \in {"idle", "done"}) =>
        \A lg \in db.leagues :
            lg.league_id = hist.sighted.league_id => lg.name = hist.sighted.name

\* Request r goes through the next record of its response while the other
\* request, which overlaps it, has gone through a record of the same fixture.
MeetsConcurrentFixture(r) ==
    /\ frun[r].pc = "items"
    /\ frun'[r].items = Tail(frun[r].items)
    /\ WellFormed(Head(frun[r].items))
    /\ TeamsStored(Head(frun[r].items))
    /\ \E o \in RunIds \ {r} : frun[o].pc \in {"fetch", "items"}
    /\ \E h \in hist.handled : h.item.id = Head(frun[r].items).id

\* C21: when a fixture ingestion request has processed a record of a new
\* fixture that an overlapping request has met too, the store holds one
\* Fixture row for the fixture, and its status_short, is_final and goals
\* are those of the record the request fetched.
C21_ConflictResolved ==
    [][\A r \in RunIds :
          MeetsConcurrentFixture(r) =>
              LET item == Head(frun[r].items)
                  rows == {f \in db'.fixtures : f.fixture_id = item.id}
              IN /\ Cardinality(rows) = 1
                 /\ \A f \in rows :
                       /\ f.status_short = item.status_short
                       /\ f.is_final = (item.status_short \in final_statuses)
                       /\ f.goals_home = item.goals_home
                       /\ f.goals_away = item.goals_away]_vars

\* An odds fetch of a fixture has ended: fetch_and_store_odds_for_fixture has
\* returned, or POST /odds has answered.
OddsFetchEnded ==
    /\ drun["A"].pc \in {"odds_returned", "post_done", "post_failed"}
    /\ drun["A"].requested # <<>>

\* The bookmaker of page `page` is stored with the odds of the fixture.
PageStored(d, fixture_id, page) ==
    \E o \in d.fixture_odds, b \in d.fixture_bookmakers :
        /\ o.fixture_id = fixture_id
        /\ b.fixture_odds_id = o.id
        /\ b.bookmaker_id = PageBookmakers[page].id

\* C24: when the source serves the odds of a fixture in T pages, an odds
\* fetch of the fixture that has ended has requested the pages 1, ..., T in
\* that order, each once, with a delay between consecutive requests, and
\* the records of every page are stored.
C24_PagesComplete ==
    OddsFetchEnded =>
        LET total == api.content
            dr == drun["A"]
        IN /\ dr.requested = [page \in 1..total |-> page]
           /\ dr.delays = total - 1
           /\ dr.pc # "post_failed"
           /\ \A page \in 1..total : PageStored(db, dr.fixture_id, page)

====
